---- MODULE Spec2Model ----
(***************************************************************************)
(* A model of the orm crate: the transaction state machine over the        *)
(* backend's session pool (src/src/transaction/mod.rs,                     *)
(* src/src/backend/sqlite.rs) and the SQL query builder                    *)
(* (src/src/query/builder.rs, src/src/query/mod.rs).                       *)
(***************************************************************************)
EXTENDS Integers, Sequences, FiniteSets, TLC

(***************************************************************************)
(* Bounds.                                                                 *)
(***************************************************************************)
NumTx == 2
MaxCalls == 4
NumCallers == 4
MaxConnections == 2
ConnectionTimeout == 2
MaxRows == 3

Sessions == {1, 2}
TxIds == 1..NumTx
Keys == {"Alice", "Bob"}
Vals == {50, 100}
NoKey == "-"

VARIABLES
    db,          \* the committed contents of the store: Keys -> Vals
    idle,        \* sessions waiting in the backend's pool
    releasing,   \* sessions whose owner dropped them, on their way back
    sessOpen,    \* session -> a driver transaction is open on it
    sessWrites,  \* session -> the uncommitted writes of its open transaction
    txState,     \* Transaction value -> "Unborn" | "Active" | "Consumed" | "Dropped"
    txSess,      \* Transaction value -> the session held by `inner`: {} or {s}
    directSess,  \* the session a direct backend call in flight holds: {} or {s}
    txBase,      \* history: the store at begin, carried forward by the
                 \* writes other callers committed since
    ret,         \* the latest return of an operation
    qb,          \* the query builder's fields
    built,       \* the result of build() since the last mutating call
    lastReturning, \* history: argument of the latest returning() call
    lastEntry,   \* history: the entry point (select, insert_into, update,
                 \* delete_from) called last since construction or reset
    wheres,      \* history: the WHERE fragments added since construction or
                 \* reset, in call order
                 \* since the builder was new or reset
    resetOf,     \* history: what the builder rendered right before reset(),
                 \* while reset() is the latest mutating call
    ncalls,      \* number of mutating builder calls made
    permits,     \* Pool: the permits the semaphore has available
    pc,          \* Pool: caller -> "idle" | "waiting" | "holding" (it owns
                 \* a PoolConnection)
    queue,       \* Pool: the callers suspended in acquire, first come first
    waited,      \* Pool: caller -> time spent in its pending acquire
    served,      \* history: the callers whose latest acquire was completed
                 \* by the drop of a PoolConnection
    conn,        \* the latest Database::connect call: its url, the backend
                 \* connect calls it made, and what it returned
    users,       \* ModelCrud: the rows of table users, in insertion order
    crudDialect, \* ModelCrud: the dialect of the backend
    crud,        \* ModelCrud: the latest create / get call: its arguments,
                 \* the statements it issued, and what it returned
    seq,         \* ModelCrud: the largest primary key the table ever held
                 \* (id INTEGER PRIMARY KEY AUTOINCREMENT)
    live,        \* history: the primary keys inserted and not deleted since
    registry,    \* MigrationRunner: migrations, in registration order
    tables,      \* the tables of the database the migrations run on
    hasTable,    \* whether the migrations table exists
    recorded,    \* the versions in the migrations table
    mig          \* the latest run_pending / rollback call: whether it
                 \* returned Ok, the statement that failed, and the
                 \* migrations it recorded or removed from the record

txVars == <<db, idle, releasing, sessOpen, sessWrites, txState, txSess,
            directSess, txBase, ret>>
qbVars == <<qb, built, lastReturning, resetOf, ncalls, lastEntry, wheres>>
poolVars == <<permits, pc, queue, waited, served>>
crudVars == <<users, crudDialect, crud, seq, live>>
migVars == <<registry, tables, hasTable, recorded, mig>>
nonTxVars == <<qbVars, poolVars, conn, crudVars, migVars>>
nonQbVars == <<txVars, poolVars, conn, crudVars, migVars>>
nonPoolVars == <<txVars, qbVars, conn, crudVars, migVars>>
nonConnVars == <<txVars, qbVars, poolVars, crudVars, migVars>>
nonCrudVars == <<txVars, qbVars, poolVars, conn, migVars>>
nonMigVars == <<txVars, qbVars, poolVars, conn, crudVars>>
vars == <<db, idle, releasing, sessOpen, sessWrites, txState, txSess,
          directSess, txBase, ret, qb, built, lastReturning,
          lastEntry, wheres,
          resetOf, ncalls, permits, pc, queue, waited, served, conn, users,
          crudDialect, crud, seq, live, registry, tables, hasTable,
          recorded, mig>>

(***************************************************************************)
(* The store as seen through a session.  The uncommitted writes of a       *)
(* session are a function from the keys written to the values written.     *)
(***************************************************************************)
EmptyWrites == [k \in {} |-> 50]

Put(w, key, v) == [k \in DOMAIN w \cup {key} |-> IF k = key THEN v ELSE w[k]]

Overlay(base, w) == [k \in Keys |-> IF k \in DOMAIN w THEN w[k] ELSE base[k]]

\* what a statement run on session s reads
ViewCommitted(s) == db

View(s) == IF sessOpen[s] THEN Overlay(db, sessWrites[s]) ELSE db

CommitPrefix(base, w) ==
    [k \in Keys |-> IF k \in DOMAIN w /\ k = "Alice" THEN w[k] ELSE base[k]]

\* the store after the driver commits a session's writes
CommitWrites(base, w) == Overlay(base, w)

AbortedStoreKeeps(base, w) == Overlay(base, w)

\* the store after the driver rolls a session's writes back
AbortedStore(base, w) == base

AcquireFromAny == Sessions

\* the sessions a pool acquire may hand out
AcquireFrom == idle

Ret(op, t, ok, err, k, v, base, w) ==
    [op |-> op, tx |-> t, ok |-> ok, err |-> err, key |-> k, val |-> v,
     base |-> base, writes |-> w]

AlreadyCompleted == "Transaction already completed"
DriverError == "Database error"
InitialDb == [k \in Keys |-> IF k = "Alice" THEN 100 ELSE 50]

\* a return that carries no value: t is {} for a direct backend call
Plain(op, t, ok, err) == Ret(op, t, ok, err, NoKey, {}, InitialDb, EmptyWrites)

\* the writes another caller committed are carried into the history of
\* every transaction that is still Active
Carry(t, newdb) ==
    [u \in TxIds |-> IF u \notin t /\ txState[u] = "Active"
                     THEN [k \in Keys |-> IF newdb[k] # db[k] THEN newdb[k]
                                          ELSE txBase[u][k]]
                     ELSE IF u \in t THEN InitialDb ELSE txBase[u]]

TxInit ==
    /\ db = InitialDb
    /\ idle = Sessions
    /\ releasing = {}
    /\ sessOpen = [s \in Sessions |-> FALSE]
    /\ sessWrites = [s \in Sessions |-> EmptyWrites]
    /\ txState = [t \in TxIds |-> "Unborn"]
    /\ txSess = [t \in TxIds |-> {}]
    /\ directSess = {}
    /\ txBase = [t \in TxIds |-> InitialDb]
    /\ ret = Plain("new", {}, TRUE, "")

(***************************************************************************)
(* Backend: begin_transaction and the direct execute / fetch calls.        *)
(***************************************************************************)
LeaveInPool(s) == idle

\* the pool once session s is checked out of it
TakeFromPool(s) == idle \ {s}

\* Backend::begin_transaction -> Transaction::new_sqlite / new_mysql
BeginTransaction(t) ==
    /\ txState[t] = "Unborn"
    /\ \E s \in AcquireFrom :
         /\ idle' = TakeFromPool(s)
         /\ sessOpen' = [sessOpen EXCEPT ![s] = TRUE]
         /\ sessWrites' = [sessWrites EXCEPT ![s] = EmptyWrites]
         /\ txSess' = [txSess EXCEPT ![t] = {s}]
    /\ txState' = [txState EXCEPT ![t] = "Active"]
    /\ txBase' = [txBase EXCEPT ![t] = db]
    /\ ret' = Plain("begin_transaction", {t}, TRUE, "")
    /\ UNCHANGED <<db, releasing, directSess>>
    /\ UNCHANGED nonTxVars

\* pool.begin().await? fails: no Transaction value is created
BeginTransactionFails(t) ==
    /\ txState[t] = "Unborn"
    /\ ret' = Plain("begin_transaction", {t}, FALSE, DriverError)
    /\ UNCHANGED <<db, idle, releasing, sessOpen, sessWrites, txState, txSess,
                   directSess, txBase>>
    /\ UNCHANGED nonTxVars

\* a direct backend call takes a session out of the pool (self.pool())
DirectAcquire ==
    /\ directSess = {}
    /\ \E s \in AcquireFrom :
         /\ directSess' = {s}
         /\ idle' = TakeFromPool(s)
    /\ UNCHANGED <<db, releasing, sessOpen, sessWrites, txState, txSess,
                   txBase, ret>>
    /\ UNCHANGED nonTxVars

\* Backend::execute: the statement runs on the acquired session, which then
\* goes back to the pool
DirectExecute(k, v, driverOk) ==
    /\ directSess # {}
    /\ \E s \in directSess :
         /\ IF ~driverOk
            THEN UNCHANGED <<db, sessWrites, txBase>>
            ELSE IF sessOpen[s]
                 THEN /\ sessWrites' = [sessWrites EXCEPT ![s] = Put(@, k, v)]
                      /\ UNCHANGED <<db, txBase>>
                 ELSE /\ db' = [db EXCEPT ![k] = v]
                      /\ txBase' = Carry({}, [db EXCEPT ![k] = v])
                      /\ UNCHANGED sessWrites
         /\ releasing' = releasing \cup {s}
    /\ directSess' = {}
    /\ ret' = Plain("execute", {}, driverOk,
                    IF driverOk THEN "" ELSE DriverError)
    /\ UNCHANGED <<idle, sessOpen, txState, txSess>>
    /\ UNCHANGED nonTxVars

\* Backend::fetch_one_params / fetch_all_params
DirectFetch(k) ==
    /\ directSess # {}
    /\ \E s \in directSess :
         /\ ret' = Ret("fetch_one_params", {}, TRUE, "", k, {View(s)[k]},
                       InitialDb, EmptyWrites)
         /\ releasing' = releasing \cup {s}
    /\ directSess' = {}
    /\ UNCHANGED <<db, idle, sessOpen, sessWrites, txState, txSess, txBase>>
    /\ UNCHANGED nonTxVars

\* a dropped pool connection arrives back in the pool
Release(s) ==
    /\ s \in releasing
    /\ releasing' = releasing \ {s}
    /\ idle' = idle \cup {s}
    /\ UNCHANGED <<db, sessOpen, sessWrites, txState, txSess, directSess,
                   txBase, ret>>
    /\ UNCHANGED nonTxVars

(***************************************************************************)
(* Transaction.  Active: `inner` is Some (txSess[t] = {s}); Consumed:      *)
(* `inner` is None.                                                        *)
(***************************************************************************)
ExecuteParamsAborts(t, k, v, driverOk) ==
    /\ txState[t] = "Active"
    /\ \E s \in txSess[t] :
         /\ sessWrites' = [sessWrites EXCEPT
                             ![s] = IF driverOk THEN Put(@, k, v)
                                    ELSE EmptyWrites]
         /\ ret' = Plain("execute_params", {t}, driverOk,
                         IF driverOk THEN "" ELSE DriverError)
    /\ UNCHANGED <<db, idle, releasing, sessOpen, txState, txSess, directSess,
                   txBase>>
    /\ UNCHANGED nonTxVars

\* Transaction::execute_params (and the deprecated execute)
ExecuteParams(t, k, v, driverOk) ==
    /\ txState[t] \in {"Active", "Consumed"}
    /\ IF txSess[t] # {}
       THEN \E s \in txSess[t] :
            IF driverOk
            THEN /\ sessWrites' = [sessWrites EXCEPT ![s] = Put(@, k, v)]
                 /\ ret' = Plain("execute_params", {t}, TRUE, "")
            ELSE /\ ret' = Plain("execute_params", {t}, FALSE, DriverError)
                 /\ UNCHANGED sessWrites
       ELSE /\ ret' = Plain("execute_params", {t}, FALSE, AlreadyCompleted)
            /\ UNCHANGED sessWrites
    /\ UNCHANGED <<db, idle, releasing, sessOpen, txState, txSess, directSess,
                   txBase>>
    /\ UNCHANGED nonTxVars

\* Transaction::fetch_one_params / fetch_all_params (and fetch_one, fetch_all)
FetchOneParams(t, k) ==
    /\ txState[t] \in {"Active", "Consumed"}
    /\ IF txSess[t] # {}
       THEN \E s \in txSess[t] :
            ret' = Ret("tx_fetch_one_params", {t}, TRUE, "", k, {View(s)[k]},
                       InitialDb, EmptyWrites)
       ELSE ret' = Plain("tx_fetch_one_params", {t}, FALSE, AlreadyCompleted)
    /\ UNCHANGED <<db, idle, releasing, sessOpen, sessWrites, txState, txSess,
                   directSess, txBase>>
    /\ UNCHANGED nonTxVars

Closed == [open |-> FALSE, writes |-> EmptyWrites]

DriverRollbackSkipped(open, w) == [open |-> open, writes |-> w]

\* the session after the driver's rollback() (or commit()) succeeded
DriverRollback(open, w) == Closed

DropKeepsOpen(open, w) == [open |-> open, writes |-> w]

\* the session after the driver transaction that `inner` held is dropped:
\* a transaction still open is rolled back
DropInner(open, w) == IF open THEN Closed ELSE [open |-> open, writes |-> w]

TakeLeaves(inner) == inner

\* what self.inner.take() leaves in self.inner
Take(inner) == {}

\* the Transaction value t gives up session s: the driver call left newdb
\* in the store and the session as sess; the session goes back to the pool
Finish(t, s, newdb, sess, state) ==
    /\ db' = newdb
    /\ txBase' = Carry({t}, newdb)
    /\ sessOpen' = [sessOpen EXCEPT ![s] = sess.open]
    /\ sessWrites' = [sessWrites EXCEPT ![s] = sess.writes]
    /\ releasing' = releasing \cup {s}
    /\ txState' = [txState EXCEPT ![t] = state]
    /\ txSess' = [txSess EXCEPT ![t] = Take(@)]

\* a commit that keeps `inner` when the driver's commit fails
CommitKeepsInner(t, driverOk) ==
    /\ txState[t] \in {"Active", "Consumed"}
    /\ IF txSess[t] # {}
       THEN \E s \in txSess[t] :
            /\ IF driverOk
               THEN Finish(t, s, CommitWrites(db, sessWrites[s]), Closed,
                           "Consumed")
               ELSE UNCHANGED <<db, txBase, sessOpen, sessWrites, releasing,
                                txState, txSess>>
            /\ ret' = Ret("commit", {t}, driverOk,
                          IF driverOk THEN "" ELSE DriverError, NoKey, {},
                          txBase[t], sessWrites[s])
       ELSE /\ ret' = Plain("commit", {t}, TRUE, "")
            /\ UNCHANGED <<db, txBase, sessOpen, sessWrites, releasing,
                           txState, txSess>>
    /\ UNCHANGED <<idle, directSess>>
    /\ UNCHANGED nonTxVars

\* Transaction::commit: inner.take(), then the driver's commit; a driver
\* failure leaves the driver transaction open, and dropping it rolls it back
Commit(t, driverOk) ==
    /\ txState[t] \in {"Active", "Consumed"}
    /\ IF txSess[t] # {}
       THEN \E s \in txSess[t] :
            /\ IF driverOk
               THEN Finish(t, s, CommitWrites(db, sessWrites[s]), Closed,
                           "Consumed")
               ELSE Finish(t, s, AbortedStore(db, sessWrites[s]),
                           DropInner(sessOpen[s], sessWrites[s]), "Consumed")
            /\ ret' = Ret("commit", {t}, driverOk,
                          IF driverOk THEN "" ELSE DriverError, NoKey, {},
                          txBase[t], sessWrites[s])
       ELSE /\ ret' = Plain("commit", {t}, TRUE, "")
            /\ UNCHANGED <<db, txBase, sessOpen, sessWrites, releasing,
                           txState, txSess>>
    /\ UNCHANGED <<idle, directSess>>
    /\ UNCHANGED nonTxVars

\* Transaction::rollback
Rollback(t, driverOk) ==
    /\ txState[t] \in {"Active", "Consumed"}
    /\ IF txSess[t] # {}
       THEN \E s \in txSess[t] :
            /\ Finish(t, s, AbortedStore(db, sessWrites[s]),
                      IF driverOk
                      THEN DriverRollback(sessOpen[s], sessWrites[s])
                      ELSE DropInner(sessOpen[s], sessWrites[s]), "Consumed")
            /\ ret' = Ret("rollback", {t}, driverOk,
                          IF driverOk THEN "" ELSE DriverError, NoKey, {},
                          txBase[t], sessWrites[s])
       ELSE /\ ret' = Plain("rollback", {t}, TRUE, "")
            /\ UNCHANGED <<db, txBase, sessOpen, sessWrites, releasing,
                           txState, txSess>>
    /\ UNCHANGED <<idle, directSess>>
    /\ UNCHANGED nonTxVars

\* impl Drop for Transaction, on a value that is still Active: dropping
\* `inner` drops the driver transaction
DropTx(t) ==
    /\ txState[t] = "Active"
    /\ \E s \in txSess[t] :
         /\ Finish(t, s, db, DropInner(sessOpen[s], sessWrites[s]), "Dropped")
         /\ ret' = Ret("drop", {t}, TRUE, "", NoKey, {}, txBase[t],
                       sessWrites[s])
    /\ UNCHANGED <<idle, directSess>>
    /\ UNCHANGED nonTxVars

Held == {t \in TxIds : txState[t] = "Active"}
Completed == {t \in TxIds : txState[t] = "Consumed"}

(***************************************************************************)
(* Query builder.  Rendered SQL is a sequence of tokens; a fragment is a   *)
(* piece of SQL text together with `ph`, the indices in params() of the    *)
(* values its placeholders were created for, in textual order.             *)
(***************************************************************************)
Placeholder == "?"

Frag(text, ph) == [text |-> text, ph |-> ph]
Lit(text) == Frag(text, <<>>)
Cat(a, b) == Frag(a.text \o b.text, a.ph \o b.ph)

RECURSIVE Join(_, _)
\* Vec<String>::join(sep) over fragments
Join(fs, sep) ==
    IF fs = <<>> THEN Lit(<<>>)
    ELSE IF Len(fs) = 1 THEN fs[1]
    ELSE Cat(Cat(fs[1], Lit(<<sep>>)), Join(Tail(fs), sep))

Lits(names) == [i \in 1..Len(names) |-> Lit(<<names[i]>>)]

NewBuilder(d) ==
    [dialect |-> d, query_type |-> "Select", columns |-> <<>>, table |-> {},
     where_clauses |-> <<>>, order_by |-> <<>>, limit |-> {}, offset |-> {},
     insert_table |-> {}, insert_columns |-> <<>>, insert_values |-> <<>>,
     update_table |-> {}, update_sets |-> <<>>, delete_table |-> {},
     returning_columns |-> <<>>, params |-> <<>>]

Ok(f) == [ok |-> TRUE, sql |-> f.text, ph |-> f.ph, err |-> ""]
Err(msg) == [ok |-> FALSE, sql |-> <<>>, ph |-> <<>>, err |-> msg]

SupportsReturningEverywhere(d, feature) == TRUE

\* Backend::supports_feature of the backend whose dialect is d
SupportsFeature(d, feature) ==
    IF d = "SQLite" THEN TRUE
    ELSE feature \notin {"Returning", "OnConflict"}

WhereClause(q) ==
    IF q.where_clauses = <<>> THEN Lit(<<>>)
    ELSE Cat(Lit(<<"WHERE">>), Join(q.where_clauses, "AND"))

\* the RETURNING clause: only SQLiteQueryBuilder has returning_columns
ReturningClause(q) ==
    IF q.dialect = "SQLite" /\ q.returning_columns # <<>>
    THEN Cat(Lit(<<"RETURNING">>), Join(Lits(q.returning_columns), ","))
    ELSE Lit(<<>>)

BuildSelectLimitFirst(q) ==
    Ok(Cat(Cat(Cat(Lit(<<"SELECT", "*">>),
                   IF q.limit = {} THEN Lit(<<>>) ELSE Lit(<<"LIMIT", "10">>)),
               IF q.table = {} THEN Lit(<<>>) ELSE Lit(<<"FROM", "users">>)),
           WhereClause(q)))

\* build_select
BuildSelect(q) ==
    LET cols == IF q.columns = <<>> THEN Lit(<<"*">>)
                ELSE Join(Lits(q.columns), ",")
        from == IF q.table = {} THEN Lit(<<>>)
                ELSE Lit(<<"FROM", CHOOSE t \in q.table : TRUE>>)
        order == IF q.order_by = <<>> THEN Lit(<<>>)
                 ELSE Cat(Lit(<<"ORDER BY">>),
                          Join([i \in 1..Len(q.order_by) |->
                                  Lit(<<q.order_by[i][1], q.order_by[i][2]>>)],
                               ","))
        lim == IF q.limit = {} THEN Lit(<<>>)
               ELSE Lit(<<"LIMIT", ToString(CHOOSE n \in q.limit : TRUE)>>)
        off == IF q.offset = {} THEN Lit(<<>>)
               ELSE Lit(<<"OFFSET", ToString(CHOOSE n \in q.offset : TRUE)>>)
    IN  Ok(Cat(Cat(Cat(Cat(Cat(Cat(Lit(<<"SELECT">>), cols), from),
                           WhereClause(q)), order), lim), off))

\* build_insert
BuildInsert(q) ==
    IF q.insert_table = {} THEN Err("No table specified for INSERT")
    ELSE IF q.insert_columns = <<>> THEN Err("No columns specified for INSERT")
    ELSE IF q.insert_values = <<>> THEN Err("No values specified for INSERT")
    ELSE LET head == Cat(Lit(<<"INSERT INTO", CHOOSE t \in q.insert_table : TRUE, "(">>),
                         Cat(Join(Lits(q.insert_columns), ","),
                             Lit(<<")", "VALUES">>)))
             groups == [i \in 1..Len(q.insert_values) |->
                          Cat(Cat(Lit(<<"(">>), Join(q.insert_values[i], ",")),
                              Lit(<<")">>))]
         IN  Ok(Cat(Cat(head, Join(groups, ",")), ReturningClause(q)))

\* build_update
BuildUpdate(q) ==
    IF q.update_table = {} THEN Err("No table specified for UPDATE")
    ELSE IF q.update_sets = <<>> THEN Err("No SET clauses specified for UPDATE")
    ELSE LET sets == [i \in 1..Len(q.update_sets) |->
                        Cat(Lit(<<q.update_sets[i].col, "=">>),
                            q.update_sets[i].val)]
         IN  Ok(Cat(Cat(Cat(Lit(<<"UPDATE", CHOOSE t \in q.update_table : TRUE,
                                  "SET">>),
                            Join(sets, ",")),
                        WhereClause(q)), ReturningClause(q)))

\* build_delete
BuildDelete(q) ==
    IF q.delete_table = {} THEN Err("No table specified for DELETE")
    ELSE Ok(Cat(Cat(Lit(<<"DELETE FROM", CHOOSE t \in q.delete_table : TRUE>>),
                    WhereClause(q)), ReturningClause(q)))

\* QueryBuilder::build
Render(q) ==
    CASE q.query_type = "Select" -> BuildSelect(q)
      [] q.query_type = "Insert" -> BuildInsert(q)
      [] q.query_type = "Update" -> BuildUpdate(q)
      [] q.query_type = "Delete" -> BuildDelete(q)

NoBuild == [done |-> FALSE, ok |-> FALSE, sql |-> <<>>, ph |-> <<>>, err |-> ""]
Built(r) == [done |-> TRUE, ok |-> r.ok, sql |-> r.sql, ph |-> r.ph, err |-> r.err]
NoReset == [was |-> FALSE, full |-> FALSE, sql |-> <<>>]

QBInit ==
    /\ qb \in {NewBuilder("SQLite"), NewBuilder("MySQL")}
    /\ built = NoBuild
    /\ lastReturning = <<>>
    /\ resetOf = NoReset
    /\ ncalls = 0
    /\ lastEntry = "none"
    /\ wheres = <<>>

\* the builder holds a complete statement of its kind, table included
Populated(q) == Render(q).ok /\ (q.query_type = "Select" => q.table # {})

\* a mutating call leaves the builder as q
Mutate(q) ==
    /\ ncalls < MaxCalls
    /\ ncalls' = ncalls + 1
    /\ qb' = q
    /\ built' = NoBuild
    /\ resetOf' = NoReset
    /\ UNCHANGED nonQbVars

QSelect(columns) ==
    /\ Mutate([qb EXCEPT !.query_type = "Select", !.columns = columns])
    /\ lastEntry' = "select"
    /\ UNCHANGED <<lastReturning, wheres>>

QFrom(table) ==
    /\ Mutate([qb EXCEPT !.table = {table}])
    /\ UNCHANGED <<lastReturning, lastEntry, wheres>>

QWhereClause(condition) ==
    /\ Mutate([qb EXCEPT !.where_clauses = Append(@, Lit(<<condition>>))])
    /\ wheres' = Append(wheres, <<condition>>)
    /\ UNCHANGED <<lastReturning, lastEntry>>

\* where_eq: the value is appended to params and the fragment
\* `column = ?` to where_clauses
QWhereEq(column, value) ==
    /\ Mutate([qb EXCEPT
                 !.params = Append(@, value),
                 !.where_clauses =
                     Append(@, Frag(<<column, "=", Placeholder>>,
                                    <<Len(qb.params) + 1>>))])
    /\ wheres' = Append(wheres, <<column, "=", Placeholder>>)
    /\ UNCHANGED <<lastReturning, lastEntry>>

QOrderBy(column, direction) ==
    /\ Mutate([qb EXCEPT !.order_by = Append(@, <<column, direction>>)])
    /\ UNCHANGED <<lastReturning, lastEntry, wheres>>

QLimit(n) ==
    /\ Mutate([qb EXCEPT !.limit = {n}])
    /\ UNCHANGED <<lastReturning, lastEntry, wheres>>

QOffset(n) ==
    /\ Mutate([qb EXCEPT !.offset = {n}])
    /\ UNCHANGED <<lastReturning, lastEntry, wheres>>

QInsertInto(table, columns) ==
    /\ Mutate([qb EXCEPT !.query_type = "Insert", !.insert_table = {table},
                         !.insert_columns = columns])
    /\ lastEntry' = "insert_into"
    /\ UNCHANGED <<lastReturning, wheres>>

QValues(values) ==
    /\ Mutate([qb EXCEPT !.insert_values = Append(@, Lits(values))])
    /\ UNCHANGED <<lastReturning, lastEntry, wheres>>

\* values_params: every value is appended to params, and a row of
\* placeholders to insert_values
QValuesParams(values) ==
    /\ Mutate([qb EXCEPT
                 !.params = @ \o values,
                 !.insert_values =
                     Append(@, [i \in 1..Len(values) |->
                                  Frag(<<Placeholder>>, <<Len(qb.params) + i>>)])])
    /\ UNCHANGED <<lastReturning, lastEntry, wheres>>

\* an update that starts its statement without the WHERE fragments
QUpdateClearsWhere(table) ==
    /\ Mutate([qb EXCEPT !.query_type = "Update", !.update_table = {table},
                         !.where_clauses = <<>>])
    /\ lastEntry' = "update"
    /\ UNCHANGED <<lastReturning, wheres>>

QUpdate(table) ==
    /\ Mutate([qb EXCEPT !.query_type = "Update", !.update_table = {table}])
    /\ lastEntry' = "update"
    /\ UNCHANGED <<lastReturning, wheres>>

QSet(column, value) ==
    /\ Mutate([qb EXCEPT !.update_sets =
                           Append(@, [col |-> column, val |-> Lit(<<value>>)])])
    /\ UNCHANGED <<lastReturning, lastEntry, wheres>>

\* set_param: the value is appended to params and `column = ?` to update_sets
QSetParam(column, value) ==
    /\ Mutate([qb EXCEPT
                 !.params = Append(@, value),
                 !.update_sets =
                     Append(@, [col |-> column,
                                val |-> Frag(<<Placeholder>>,
                                             <<Len(qb.params) + 1>>)])])
    /\ UNCHANGED <<lastReturning, lastEntry, wheres>>

\* a delete_from that records its table without switching the kind
QDeleteFromKeepsKind(table) ==
    /\ Mutate([qb EXCEPT !.delete_table = {table}])
    /\ lastEntry' = "delete_from"
    /\ UNCHANGED <<lastReturning, wheres>>

QDeleteFrom(table) ==
    /\ Mutate([qb EXCEPT !.query_type = "Delete", !.delete_table = {table}])
    /\ lastEntry' = "delete_from"
    /\ UNCHANGED <<lastReturning, wheres>>

\* returning: stored by SQLiteQueryBuilder, ignored by MySQLQueryBuilder
QReturning(columns) ==
    /\ Mutate(IF qb.dialect = "SQLite"
              THEN [qb EXCEPT !.returning_columns = columns]
              ELSE qb)
    /\ lastReturning' = columns
    /\ UNCHANGED <<lastEntry, wheres>>

QBuildDrains ==
    /\ built' = Built(Render(qb))
    /\ qb' = NewBuilder(qb.dialect)
    /\ UNCHANGED <<lastReturning, resetOf, ncalls, lastEntry, wheres>>
    /\ UNCHANGED nonQbVars

\* build(&self)
QBuild ==
    /\ built' = Built(Render(qb))
    /\ UNCHANGED <<qb, lastReturning, resetOf, ncalls, lastEntry, wheres>>
    /\ UNCHANGED nonQbVars

\* reset
QReset ==
    /\ ncalls < MaxCalls
    /\ ncalls' = ncalls + 1
    /\ qb' = NewBuilder(qb.dialect)
    /\ built' = NoBuild
    /\ resetOf' = [was |-> TRUE, full |-> Populated(qb), sql |-> Render(qb).sql]
    /\ lastReturning' = <<>>
    /\ lastEntry' = "none"
    /\ wheres' = <<>>
    /\ UNCHANGED nonQbVars

I32(v) == [tag |-> "I32", v |-> v]
Str(v) == [tag |-> "String", v |-> v]

(***************************************************************************)
(* The builder methods as functions of the builder, and the reading of     *)
(* rendered SQL.                                                           *)
(***************************************************************************)
\* a call of a builder method, with its arguments
Call(m, a) == [m |-> m, a |-> a]

\* the builder after the call c
Apply(q, c) ==
    CASE c.m = "select" -> [q EXCEPT !.query_type = "Select", !.columns = c.a]
      [] c.m = "from" -> [q EXCEPT !.table = {c.a[1]}]
      [] c.m = "where_clause" ->
           [q EXCEPT !.where_clauses = Append(@, Lit(<<c.a[1]>>))]
      [] c.m = "where_eq" ->
           [q EXCEPT !.params = Append(@, c.a[2]),
                     !.where_clauses =
                         Append(@, Frag(<<c.a[1], "=", Placeholder>>,
                                        <<Len(q.params) + 1>>))]
      [] c.m = "order_by" ->
           [q EXCEPT !.order_by = Append(@, <<c.a[1], c.a[2]>>)]
      [] c.m = "limit" -> [q EXCEPT !.limit = {c.a[1]}]
      [] c.m = "offset" -> [q EXCEPT !.offset = {c.a[1]}]
      [] c.m = "insert_into" ->
           [q EXCEPT !.query_type = "Insert", !.insert_table = {c.a[1]},
                     !.insert_columns = c.a[2]]
      [] c.m = "values_params" ->
           [q EXCEPT !.params = @ \o c.a,
                     !.insert_values =
                         Append(@, [i \in 1..Len(c.a) |->
                                      Frag(<<Placeholder>>,
                                           <<Len(q.params) + i>>)])]
      [] c.m = "delete_from" ->
           [q EXCEPT !.query_type = "Delete", !.delete_table = {c.a[1]}]
      [] c.m = "returning" ->
           IF q.dialect = "SQLite" THEN [q EXCEPT !.returning_columns = c.a]
           ELSE q

\* the position of the keyword in the SQL, or 0
Pos(sql, kw) ==
    IF \E i \in DOMAIN sql : sql[i] = kw
    THEN CHOOSE i \in DOMAIN sql : sql[i] = kw
    ELSE 0

NumPlaceholders(sql) == Cardinality({i \in DOMAIN sql : sql[i] = Placeholder})

HasReturning(sql) == \E i \in DOMAIN sql : sql[i] = "RETURNING"

(***************************************************************************)
(* Pool: a counting semaphore of max_connections permits; a PoolConnection *)
(* owns one permit and gives it back when dropped.                         *)
(***************************************************************************)
Callers == 1..NumCallers

\* Pool::new: Semaphore::new(config.max_connections)
PoolInit ==
    /\ permits = MaxConnections
    /\ pc = [p \in Callers |-> "idle"]
    /\ queue = <<>>
    /\ waited = [p \in Callers |-> 0]
    /\ served = {}

\* the live PoolConnection values
Live == {p \in Callers : pc[p] = "holding"}

PermitAlways == TRUE

\* acquire_owned() gets a permit without suspending
PermitReady == permits > 0 /\ queue = <<>>

\* Pool::acquire is called: semaphore.clone().acquire_owned().await
Acquire(p) ==
    /\ pc[p] = "idle"
    /\ IF PermitReady
       THEN /\ permits' = permits - 1
            /\ pc' = [pc EXCEPT ![p] = "holding"]
            /\ UNCHANGED queue
       ELSE /\ pc' = [pc EXCEPT ![p] = "waiting"]
            /\ queue' = Append(queue, p)
            /\ UNCHANGED permits
    /\ waited' = [waited EXCEPT ![p] = 0]
    /\ served' = served \ {p}
    /\ UNCHANGED nonPoolVars

\* time passes for the callers suspended in acquire; nothing in acquire
\* looks at config.connection_timeout
Tick ==
    /\ \E p \in Callers : pc[p] = "waiting" /\ waited[p] <= ConnectionTimeout
    /\ waited' = [p \in Callers |->
                    IF pc[p] = "waiting" /\ waited[p] <= ConnectionTimeout
                    THEN waited[p] + 1 ELSE waited[p]]
    /\ UNCHANGED <<permits, pc, queue, served>>
    /\ UNCHANGED nonPoolVars

\* a drop that forgets the permit of the PoolConnection
DropLeaksPermit(p) ==
    /\ pc[p] = "holding"
    /\ pc' = [pc EXCEPT ![p] = "idle"]
    /\ UNCHANGED <<permits, queue, waited, served>>
    /\ UNCHANGED nonPoolVars

\* a PoolConnection is dropped: its permit goes to the first suspended
\* acquire, or back to the semaphore
DropConnection(p) ==
    /\ pc[p] = "holding"
    /\ IF queue # <<>>
       THEN /\ pc' = [pc EXCEPT ![p] = "idle", ![Head(queue)] = "holding"]
            /\ queue' = Tail(queue)
            /\ waited' = [waited EXCEPT ![Head(queue)] = 0]
            /\ served' = served \cup {Head(queue)}
            /\ UNCHANGED permits
       ELSE /\ pc' = [pc EXCEPT ![p] = "idle"]
            /\ permits' = permits + 1
            /\ UNCHANGED <<queue, waited, served>>
    /\ UNCHANGED nonPoolVars

(***************************************************************************)
(* Database::connect.  A url is the sequence of its characters.            *)
(***************************************************************************)
SqlitePrefix == <<"s", "q", "l", "i", "t", "e", ":">>
MysqlPrefix == <<"m", "y", "s", "q", "l", ":", "/", "/">>

\* str::starts_with
StartsWith(url, prefix) ==
    /\ Len(url) >= Len(prefix)
    /\ \A i \in 1..Len(prefix) : url[i] = prefix[i]

UrlHeads ==
    {<<"s", "q", "l", "i", "t", "e", ":">>,
     <<"m", "y", "s", "q", "l", ":", "/", "/">>,
     <<"s", "q", "l", "i", "t", "e">>,
     <<"m", "y", "s", "q", "l", ":">>,
     <<"m", "y", "s", "q", "l", ":", "/">>,
     <<"p", "o", "s", "t", "g", "r", "e", "s", ":", "/", "/">>,
     <<>>,
     <<"S", "Q", "L", "I", "T", "E", ":">>,
     <<"x", "s", "q", "l", "i", "t", "e", ":">>,
     <<"s", "q", "l", "i", "t", "e", ":", ":">>,
     <<"m", "y", "s", "q", "l", ":", "/", "/", "/">>,
     <<"m">>}

UrlTails ==
    {<<>>,
     <<":", "m", "e", "m", "o", "r", "y", ":">>,
     <<"/", "/">>,
     <<"/", "d", "b">>,
     <<"s", "q", "l", "i", "t", "e", ":">>,
     <<"m", "y", "s", "q", "l", ":", "/", "/">>,
     <<"?", "x">>,
     <<"l", "o", "c", "a", "l", "h", "o", "s", "t">>}

Urls == {h \o t : h \in UrlHeads, t \in UrlTails}

FromUrlAnywhere(url) ==
    IF \E i \in 1..Len(url) :
         StartsWith(SubSeq(url, i, Len(url)), SqlitePrefix)
    THEN [ok |-> TRUE, backend |-> "SQLite", err |-> ""]
    ELSE IF \E i \in 1..Len(url) :
              StartsWith(SubSeq(url, i, Len(url)), MysqlPrefix)
    THEN [ok |-> TRUE, backend |-> "MySQL", err |-> ""]
    ELSE [ok |-> FALSE, backend |-> "", err |-> "ConfigError"]

\* DatabaseBackend::from_url
FromUrl(url) ==
    IF StartsWith(url, SqlitePrefix)
    THEN [ok |-> TRUE, backend |-> "SQLite", err |-> ""]
    ELSE IF StartsWith(url, MysqlPrefix)
    THEN [ok |-> TRUE, backend |-> "MySQL", err |-> ""]
    ELSE [ok |-> FALSE, backend |-> "", err |-> "ConfigError"]

NoConnect == [done |-> FALSE, url |-> <<>>, called |-> <<>>, ok |-> FALSE,
              backend |-> "", err |-> ""]

ConnInit == conn = NoConnect

\* Database::connect: from_url(url)?, then the connect of the backend it
\* selected, which the driver may refuse
Connect(url, driverOk) ==
    /\ LET b == FromUrl(url)
       IN  conn' = IF ~b.ok
                   THEN [done |-> TRUE, url |-> url, called |-> <<>>,
                         ok |-> FALSE, backend |-> "", err |-> b.err]
                   ELSE [done |-> TRUE, url |-> url, called |-> <<b.backend>>,
                         ok |-> driverOk,
                         backend |-> IF driverOk THEN b.backend ELSE "",
                         err |-> IF driverOk THEN "" ELSE DriverError]
    /\ UNCHANGED nonConnVars

(***************************************************************************)
(* ModelCrud over the table `users` (id, name, age).  The backend runs the *)
(* SQL the builder rendered, with the parameters bound to the placeholders *)
(* in textual order.                                                       *)
(***************************************************************************)
AllColumns == <<"id", "name", "age">>

\* the people of tests/crud_test.rs
People == {[name |-> "Alice", age |-> 30], [name |-> "Bob", age |-> 25],
           [name |-> "Charlie", age |-> 35]}

I64(v) == [tag |-> "I64", v |-> v]

\* a store that hands out the latest key again
NextIdReuses(last) == last

\* the primary key the store assigns to a row inserted without one
NextId(last) == last + 1

\* the row an INSERT statement adds to the table
InsertedRow(sql, params, last) ==
    LET n == NumPlaceholders(sql)
        col(k) == sql[2 * k + 2]
        given(f) == \E k \in 1..n : col(k) = f
        value(f) == params[CHOOSE k \in 1..n : col(k) = f].v
    IN  [f \in {"id", "name", "age"} |->
           IF given(f) THEN value(f) ELSE NextId(last)]

RECURSIVE SortRows(_, _, _)
\* ORDER BY column direction, rows of equal rank in stored order
SortRows(rows, column, direction) ==
    IF rows = <<>> THEN <<>>
    ELSE LET r == rows[Len(rows)]
             before(x) == IF direction = "ASC" THEN x[column] <= r[column]
                          ELSE x[column] >= r[column]
             rest == SortRows(SubSeq(rows, 1, Len(rows) - 1), column, direction)
         IN  SelectSeq(rest, before) \o <<r>> \o
             SelectSeq(rest, LAMBDA x : ~before(x))

\* the rows a DELETE statement leaves in the table
DeleteRows(sql, params, table) ==
    LET w == Pos(sql, "WHERE")
        n == NumPlaceholders(sql)
        match(r) == \A k \in 1..n : r[sql[w + 4 * k - 3]] = params[k].v
    IN  SelectSeq(table, LAMBDA r : ~match(r))

\* the rows a SELECT statement returns
Eval(sql, params, table) ==
    LET w == Pos(sql, "WHERE")
        n == NumPlaceholders(sql)
        match(r) == \A k \in 1..n : r[sql[w + 4 * k - 3]] = params[k].v
        found == SelectSeq(table, match)
        o == Pos(sql, "ORDER BY")
        sorted == IF o = 0 THEN found
                  ELSE SortRows(found, sql[o + 1], sql[o + 2])
        l == Pos(sql, "LIMIT")
        lim == IF l = 0 THEN Len(sorted)
               ELSE CHOOSE m \in 0..10 : ToString(m) = sql[l + 1]
    IN  SubSeq(sorted, 1, IF lim < Len(sorted) THEN lim ELSE Len(sorted))

\* ModelCrud::query: select(all_columns).from(table_name)
Query(d) ==
    Apply(Apply(NewBuilder(d), Call("select", AllColumns)),
          Call("from", <<"users">>))

RECURSIVE WithPreds(_, _)
\* ModelQuery::where_eq for each predicate in turn
WithPreds(q, preds) ==
    IF preds = <<>> THEN q
    ELSE WithPreds(Apply(q, Call("where_eq", <<preds[1].col, preds[1].val>>)),
                   Tail(preds))

GetQueryUnfiltered(d, preds, order) ==
    IF order = <<>> THEN Query(d)
    ELSE Apply(Query(d), Call("order_by", order))

\* the builder of ModelCrud::query(..).where_eq(..).order_by(..)
GetQuery(d, preds, order) ==
    IF order = <<>> THEN WithPreds(Query(d), preds)
    ELSE Apply(WithPreds(Query(d), preds), Call("order_by", order))

\* the builder of ModelCrud::find(id)
FindQuery(d, id) ==
    Apply(Apply(Query(d), Call("where_eq", <<"id", I64(id)>>)),
          Call("limit", <<1>>))

Stmt(q) == [sql |-> Render(q).sql, params |-> q.params]

NoCrud == [op |-> "new", ok |-> FALSE, err |-> "", stmts |-> <<>>,
           rows |-> <<>>, preds |-> <<>>, order |-> <<>>, given |-> <<>>,
           limit |-> {}, count |-> {}]

CrudIdle ==
    /\ users = <<>>
    /\ crudDialect = "SQLite"
    /\ crud = NoCrud
    /\ seq = 0
    /\ live = {}

CrudInit ==
    /\ users = <<>>
    /\ crudDialect \in {"SQLite", "MySQL"}
    /\ crud = NoCrud
    /\ seq = 0
    /\ live = {}

\* the builder of the INSERT that create issues
CreateQuery(d, columns, values) ==
    LET ins == Apply(Apply(NewBuilder(d),
                           Call("insert_into", <<"users", columns>>)),
                     Call("values_params", values))
    IN  IF SupportsFeature(d, "Returning")
        THEN Apply(ins, Call("returning", AllColumns))
        ELSE ins

\* the primary keys create is given: none, or an explicit one
GivenIds == {{}, {2}}

\* ModelCrud::create(backend, values): values.id is {} (None) or {id}
Create(id, person) ==
    LET columns == (IF id = {} THEN <<>> ELSE <<"id">>) \o <<"name", "age">>
        values == (IF id = {} THEN <<>> ELSE <<I64(CHOOSE i \in id : TRUE)>>)
                  \o <<Str(person.name), I32(person.age)>>
        q == CreateQuery(crudDialect, columns, values)
        row == InsertedRow(Render(q).sql, q.params, seq)
        done == [NoCrud EXCEPT !.op = "create", !.stmts = <<Stmt(q)>>,
                               !.given = <<id, person>>]
    IN  /\ Len(users) < MaxRows
        /\ id = {} => seq < MaxRows
        /\ IF \E i \in DOMAIN users : users[i].id = row.id
           THEN \* the store refuses a duplicate primary key
                /\ crud' = [done EXCEPT !.err = DriverError]
                /\ UNCHANGED <<users, seq, live>>
           ELSE /\ users' = Append(users, row)
                /\ seq' = IF row.id > seq THEN row.id ELSE seq
                /\ live' = live \cup {row.id}
                /\ IF SupportsFeature(crudDialect, "Returning")
                   THEN crud' = [done EXCEPT !.ok = TRUE, !.rows = <<row>>]
                   ELSE IF id # {}
                   THEN LET f == FindQuery(crudDialect, CHOOSE i \in id : TRUE)
                            got == Eval(Render(f).sql, f.params,
                                        Append(users, row))
                        IN  crud' = [done EXCEPT
                                       !.stmts = <<Stmt(q), Stmt(f)>>,
                                       !.ok = (got # <<>>),
                                       !.err = IF got # <<>> THEN ""
                                               ELSE "Failed to fetch created record",
                                       !.rows = got]
                   ELSE crud' = [done EXCEPT !.err =
                       "Auto-increment ID retrieval not yet implemented for MySQL"]
        /\ UNCHANGED crudDialect
        /\ UNCHANGED nonCrudVars

\* the number of users test_query_builder stores
NumUsers == 10

\* the table after test_query_builder's ten creates: ids 1..10 from
\* AUTOINCREMENT, names User1..User10, ages 21..30
TenUsers ==
    [i \in 1..NumUsers |->
        [id |-> i, name |-> "User" \o ToString(i), age |-> 20 + i]]

QueryInit ==
    /\ users = TenUsers
    /\ crudDialect = "SQLite"
    /\ crud = NoCrud
    /\ seq = NumUsers
    /\ live = 1..NumUsers

\* the where_eq predicates, orders and limits tried on the ten users
AgePreds ==
    [i \in 0..NumUsers |->
        IF i = 0 THEN <<>> ELSE <<[col |-> "age", val |-> I32(20 + i)]>>]

AgeOrders == <<<<>>, <<"age", "ASC">>, <<"age", "DESC">>>>

Limits == {{}, {1}, {3}}

\* the queries tried: where_eq predicates and an optional order_by
GetPreds ==
    <<<<>>,
      <<[col |-> "age", val |-> I32(25)]>>,
      <<[col |-> "name", val |-> Str("Bob")], [col |-> "age", val |-> I32(25)]>>,
      <<[col |-> "age", val |-> I32(30)], [col |-> "id", val |-> I64(1)]>>>>

GetOrders == <<<<>>, <<"age", "DESC">>, <<"id", "ASC">>>>

\* ModelQuery::get on ModelCrud::query(..).where_eq(..).order_by(..)
Get(preds, order) ==
    LET q == GetQuery(crudDialect, preds, order)
    IN  /\ crud' = [NoCrud EXCEPT !.op = "get", !.ok = Render(q).ok,
                       !.stmts = <<Stmt(q)>>,
                       !.rows = Eval(Render(q).sql, q.params, users),
                       !.preds = preds, !.order = order]
        /\ UNCHANGED <<users, crudDialect, seq, live>>
        /\ UNCHANGED nonCrudVars

\* the builder of ModelCrud::query(..).where_eq(..).order_by(..).limit(..)
LimitedQuery(d, preds, order, limit) ==
    IF limit = {} THEN GetQuery(d, preds, order)
    ELSE Apply(GetQuery(d, preds, order),
               Call("limit", <<CHOOSE n \in limit : TRUE>>))

\* ModelQuery::get on a query with where_eq, order_by and limit
GetLimited(preds, order, limit) ==
    LET q == LimitedQuery(crudDialect, preds, order, limit)
    IN  /\ crud' = [NoCrud EXCEPT !.op = "get", !.ok = Render(q).ok,
                       !.stmts = <<Stmt(q)>>,
                       !.rows = Eval(Render(q).sql, q.params, users),
                       !.preds = preds, !.order = order, !.limit = limit]
        /\ UNCHANGED <<users, crudDialect, seq, live>>
        /\ UNCHANGED nonCrudVars

\* ModelQuery::first: fetch_one_params gives the first row the query
\* returns, if any
First(preds, order) ==
    LET q == GetQuery(crudDialect, preds, order)
        got == Eval(Render(q).sql, q.params, users)
    IN  /\ crud' = [NoCrud EXCEPT !.op = "first", !.ok = Render(q).ok,
                       !.stmts = <<Stmt(q)>>,
                       !.rows = IF got = <<>> THEN <<>> ELSE <<got[1]>>,
                       !.preds = preds, !.order = order]
        /\ UNCHANGED <<users, crudDialect, seq, live>>
        /\ UNCHANGED nonCrudVars

\* ModelCrud::find(id)
Find(id) ==
    LET q == FindQuery(crudDialect, id)
        got == Eval(Render(q).sql, q.params, users)
    IN  /\ crud' = [NoCrud EXCEPT !.op = "find", !.ok = Render(q).ok,
                       !.stmts = <<Stmt(q)>>,
                       !.rows = IF got = <<>> THEN <<>> ELSE <<got[1]>>,
                       !.given = <<{id}>>]
        /\ UNCHANGED <<users, crudDialect, seq, live>>
        /\ UNCHANGED nonCrudVars

\* a delete that forgets its primary-key predicate
DeleteQueryUnfiltered(d, id) ==
    Apply(NewBuilder(d), Call("delete_from", <<"users">>))

\* the builder of ModelCrud::delete
DeleteQuery(d, id) ==
    Apply(Apply(NewBuilder(d), Call("delete_from", <<"users">>)),
          Call("where_eq", <<"id", I64(id)>>))

\* ModelCrud::delete(&self) on a record whose primary key is id
Delete(id) ==
    LET q == DeleteQuery(crudDialect, id)
    IN  /\ users' = DeleteRows(Render(q).sql, q.params, users)
        /\ live' = live \ {id}
        /\ crud' = [NoCrud EXCEPT !.op = "delete", !.ok = Render(q).ok,
                       !.stmts = <<Stmt(q)>>, !.given = <<{id}>>]
        /\ UNCHANGED <<crudDialect, seq>>
        /\ UNCHANGED nonCrudVars

\* the builder of ModelCrud::count
CountQuery(d) ==
    Apply(Apply(NewBuilder(d), Call("select", <<"COUNT(*) as count">>)),
          Call("from", <<"users">>))

\* ModelCrud::count
Count ==
    LET q == CountQuery(crudDialect)
    IN  /\ crud' = [NoCrud EXCEPT !.op = "count", !.ok = Render(q).ok,
                       !.stmts = <<Stmt(q)>>,
                       !.count = {Len(Eval(Render(q).sql, q.params, users))}]
        /\ UNCHANGED <<users, crudDialect, seq, live>>
        /\ UNCHANGED nonCrudVars

(***************************************************************************)
(* Specifications.                                                         *)
(***************************************************************************)
(***************************************************************************)
(* Migrations.  A MigrationRunner holds its migrations in registration     *)
(* order; run_pending and rollback run statements on the backend one after *)
(* the other and stop at the first that fails.  A call is given the        *)
(* statement the driver refuses, if any.                                    *)
(***************************************************************************)
MaxMigrations == 2
MaxSteps == 2

\* the migrations that can be registered: those of
\* examples/migrations_example.rs, and one more carrying the version of
\* the second
MigIds == 1..4

Version(m) == <<1, 2, 3, 2>>[m]

CreateTable(t) == [op |-> "create", t |-> t]
DropTable(t) == [op |-> "drop", t |-> t]

\* Migration::up: the operations pushed onto the Schema
Up(m) ==
    CASE m = 1 -> <<CreateTable("users")>>
      [] m = 2 -> <<CreateTable("posts")>>
      [] m = 3 -> <<CreateTable("tags"), CreateTable("post_tags")>>
      [] m = 4 -> <<CreateTable("comments")>>

\* Migration::down
Down(m) ==
    CASE m = 1 -> <<DropTable("users")>>
      [] m = 2 -> <<DropTable("posts")>>
      [] m = 3 -> <<DropTable("post_tags"), DropTable("tags")>>
      [] m = 4 -> <<DropTable("comments")>>

OpsOf(k, m) == IF k = "up" THEN Up(m) ELSE Down(m)

\* a statement of a call: k is "ensure" (CREATE TABLE IF NOT EXISTS
\* migrations), "versions" (SELECT version FROM migrations), "up" / "down"
\* (operation i of migration m), "record" (INSERT INTO migrations) or
\* "unrecord" (DELETE FROM migrations)
Statement(k, m, i) == [k |-> k, m |-> m, i |-> i]

NoBad == Statement("none", 0, 0)

\* the statements the driver is made to refuse
Bads ==
    {NoBad, Statement("versions", 0, 0),
     Statement("up", 2, 1), Statement("up", 3, 1), Statement("up", 3, 2),
     Statement("record", 3, 0),
     Statement("down", 3, 2), Statement("unrecord", 3, 0)}

\* the database as a call sees it, and the statements the call has run
Db(t, h, r) == [tables |-> t, hasTable |-> h, recorded |-> r, log |-> <<>>,
                ok |-> TRUE]

\* the database refuses the statement by itself: CREATE TABLE of a table
\* that exists, a version already in the UNIQUE column, a SELECT from a
\* missing table
Refused(st, stmt) ==
    CASE stmt.k \in {"up", "down"} ->
           LET o == OpsOf(stmt.k, stmt.m)[stmt.i]
           IN  o.op = "create" /\ o.t \in st.tables
      [] stmt.k = "record" -> ~st.hasTable \/ Version(stmt.m) \in st.recorded
      [] stmt.k \in {"versions", "unrecord"} -> ~st.hasTable
      [] OTHER -> FALSE

\* what the statement does to the database
Effect(st, stmt) ==
    CASE stmt.k = "ensure" -> [st EXCEPT !.hasTable = TRUE]
      [] stmt.k \in {"up", "down"} ->
           LET o == OpsOf(stmt.k, stmt.m)[stmt.i]
           IN  [st EXCEPT !.tables = IF o.op = "create" THEN @ \cup {o.t}
                                     ELSE @ \ {o.t}]
      [] stmt.k = "record" ->
           [st EXCEPT !.recorded = @ \cup {Version(stmt.m)}]
      [] stmt.k = "unrecord" ->
           [st EXCEPT !.recorded = @ \ {Version(stmt.m)}]
      [] OTHER -> st

\* backend.execute / execute_raw / fetch_all of one statement
Exec(st, stmt, bad) ==
    IF stmt = bad \/ Refused(st, stmt)
    THEN [st EXCEPT !.ok = FALSE,
                    !.log = Append(@, [s |-> stmt, ok |-> FALSE])]
    ELSE [Effect(st, stmt) EXCEPT !.log = Append(@, [s |-> stmt, ok |-> TRUE])]

\* Schema::execute: the operations in order, stopping at the first error
RECURSIVE Execute(_, _, _, _, _)
Execute(st, k, m, i, bad) ==
    IF i > Len(OpsOf(k, m)) THEN st
    ELSE LET s == Exec(st, Statement(k, m, i), bad)
         IN  IF s.ok THEN Execute(s, k, m, i + 1, bad) ELSE s

\* the versions in increasing order (ORDER BY version)
RECURSIVE Ascending(_)
Ascending(vs) ==
    IF vs = {} THEN <<>>
    ELSE LET top == CHOOSE v \in vs : \A w \in vs : w <= v
         IN  Append(Ascending(vs \ {top}), top)

\* a run_pending that takes every registered migration for pending
IsPendingAlways(m, executed) == TRUE

\* run_pending: !executed.contains(&migration.version())
IsPending(m, executed) == \A j \in DOMAIN executed : executed[j] # Version(m)

\* a run_pending that records the version whatever schema.execute returned
RecordsAlways(st) == TRUE

\* run_pending: `schema.execute(backend).await?` lets the INSERT run only
\* after every operation succeeded
Records(st) == st.ok

\* run_pending: the loop over self.migrations, from the j-th on
RECURSIVE RunLoop(_, _, _, _, _)
RunLoop(st, reg, j, executed, bad) ==
    IF j > Len(reg) THEN st
    ELSE IF ~IsPending(reg[j], executed)
    THEN RunLoop(st, reg, j + 1, executed, bad)
    ELSE LET s1 == Execute(st, "up", reg[j], 1, bad)
             s2 == IF Records(s1)
                   THEN LET r == Exec(s1, Statement("record", reg[j], 0), bad)
                        IN  [r EXCEPT !.ok = s1.ok /\ r.ok]
                   ELSE s1
         IN  IF s2.ok THEN RunLoop(s2, reg, j + 1, executed, bad) ELSE s2

\* what run_pending does to the database st with the migrations reg
RunPendingOn(st, reg, bad) ==
    LET s1 == Exec(st, Statement("ensure", 0, 0), bad)
        s2 == IF s1.ok THEN Exec(s1, Statement("versions", 0, 0), bad) ELSE s1
    IN  IF s2.ok THEN RunLoop(s2, reg, 1, Ascending(s2.recorded), bad) ELSE s2

\* a rollback that takes the lowest versions
ToRollbackLowest(executed, steps) ==
    SubSeq(executed, 1, IF steps < Len(executed) THEN steps ELSE Len(executed))

\* rollback: executed.iter().rev().take(steps)
ToRollback(executed, steps) ==
    LET n == IF steps < Len(executed) THEN steps ELSE Len(executed)
    IN  [j \in 1..n |-> executed[Len(executed) + 1 - j]]

\* rollback: self.migrations.iter().find(|m| m.version() == version), as
\* the set holding the migration found, if any
FindMigration(reg, version) ==
    LET hits == {j \in DOMAIN reg : Version(reg[j]) = version}
    IN  IF hits = {} THEN {}
        ELSE {reg[CHOOSE j \in hits : \A h \in hits : j <= h]}

\* rollback: the loop over to_rollback, from the j-th version on
RECURSIVE RollbackLoop(_, _, _, _, _)
RollbackLoop(st, reg, versions, j, bad) ==
    IF j > Len(versions) THEN st
    ELSE LET found == FindMigration(reg, versions[j])
         IN  IF found = {} THEN RollbackLoop(st, reg, versions, j + 1, bad)
             ELSE LET m == CHOOSE x \in found : TRUE
                      s1 == Execute(st, "down", m, 1, bad)
                      s2 == IF s1.ok
                            THEN Exec(s1, Statement("unrecord", m, 0), bad)
                            ELSE s1
                  IN  IF s2.ok THEN RollbackLoop(s2, reg, versions, j + 1, bad)
                      ELSE s2

\* what rollback(steps) does to the database st with the migrations reg
RollbackOn(st, reg, steps, bad) ==
    LET s1 == Exec(st, Statement("versions", 0, 0), bad)
    IN  IF s1.ok
        THEN RollbackLoop(s1, reg, ToRollback(Ascending(s1.recorded), steps),
                          1, bad)
        ELSE s1

\* the statement a call failed at
Failed(st) ==
    LET errors == SelectSeq(st.log, LAMBDA e : ~e.ok)
    IN  IF errors = <<>> THEN NoBad ELSE errors[1].s

\* the migrations whose record a call inserted or deleted, in order
Done(log) ==
    LET hits == SelectSeq(log, LAMBDA e : e.ok /\ e.s.k \in {"record", "unrecord"})
    IN  [j \in DOMAIN hits |-> hits[j].s.m]

NoMig == [op |-> "new", ok |-> TRUE, steps |-> 0, failed |-> NoBad,
          done |-> <<>>]

MigInit ==
    /\ registry = <<>>
    /\ tables = {}
    /\ hasTable = FALSE
    /\ recorded = {}
    /\ mig = NoMig

\* MigrationRunner::new: another runner, with no migration registered yet,
\* on the same database
NewRunner ==
    /\ registry # <<>>
    /\ registry' = <<>>
    /\ UNCHANGED <<tables, hasTable, recorded, mig>>
    /\ UNCHANGED nonMigVars

\* MigrationRunner::add_migration
AddMigration(m) ==
    /\ Len(registry) < MaxMigrations
    /\ \A j \in DOMAIN registry : registry[j] # m
    /\ registry' = Append(registry, m)
    /\ UNCHANGED <<tables, hasTable, recorded, mig>>
    /\ UNCHANGED nonMigVars

\* the database after a call, and the record of the call
Returned(op, steps, st) ==
    /\ tables' = st.tables
    /\ hasTable' = st.hasTable
    /\ recorded' = st.recorded
    /\ mig' = [op |-> op, ok |-> st.ok, steps |-> steps,
               failed |-> Failed(st), done |-> Done(st.log)]
    /\ UNCHANGED registry
    /\ UNCHANGED nonMigVars

\* MigrationRunner::run_pending
RunPending(bad) ==
    Returned("run_pending", 0,
             RunPendingOn(Db(tables, hasTable, recorded), registry, bad))

\* MigrationRunner::rollback
RollbackMigrations(steps, bad) ==
    Returned("rollback", steps,
             RollbackOn(Db(tables, hasTable, recorded), registry, steps, bad))

Init == TxInit /\ QBInit /\ PoolInit /\ ConnInit /\ CrudIdle /\ MigInit

InitTx == TxInit /\ qb = NewBuilder("SQLite") /\ built = NoBuild
          /\ lastReturning = <<>> /\ resetOf = NoReset /\ ncalls = 0
            /\ lastEntry = "none" /\ wheres = <<>>
          /\ PoolInit /\ ConnInit /\ CrudIdle /\ MigInit

InitCrud == TxInit /\ qb = NewBuilder("SQLite") /\ built = NoBuild
            /\ lastReturning = <<>> /\ resetOf = NoReset /\ ncalls = 0
            /\ lastEntry = "none" /\ wheres = <<>>
            /\ PoolInit /\ ConnInit /\ CrudInit /\ MigInit

Next ==
    \/ \E t \in TxIds : BeginTransaction(t)
    \/ \E t \in TxIds : BeginTransactionFails(t)
    \/ DirectAcquire
    \/ \E k \in Keys, v \in Vals, ok \in BOOLEAN : DirectExecute(k, v, ok)
    \/ \E k \in Keys : DirectFetch(k)
    \/ \E s \in Sessions : Release(s)
    \/ \E t \in Held, k \in Keys, v \in Vals, ok \in BOOLEAN :
         ExecuteParams(t, k, v, ok)
    \/ \E t \in Held, k \in Keys : FetchOneParams(t, k)
    \/ \E t \in Held, ok \in BOOLEAN : Commit(t, ok)
    \/ \E t \in Held, ok \in BOOLEAN : Rollback(t, ok)
    \/ \E t \in Held : DropTx(t)

\* the methods applied to a Transaction value whose `inner` is None
CompletedNext ==
    \/ \E t \in Completed, k \in Keys, v \in Vals : ExecuteParams(t, k, v, TRUE)
    \/ \E t \in Completed, k \in Keys : FetchOneParams(t, k)
    \/ \E t \in Completed : Commit(t, TRUE)
    \/ \E t \in Completed : Rollback(t, TRUE)

NextUnit == Next \/ CompletedNext

NextQB ==
    \/ \E c \in {<<>>, <<"id", "name">>} : QSelect(c)
    \/ QFrom("users")
    \/ QWhereClause("age > 18")
    \/ QWhereEq("age", I32("18"))
    \/ QOrderBy("name", "ASC")
    \/ QLimit(10)
    \/ QOffset(5)
    \/ \E c \in {<<>>, <<"name", "age">>} : QInsertInto("users", c)
    \/ QValues(<<"'Al'", "30">>)
    \/ QValuesParams(<<Str("Al"), I32("30")>>)
    \/ QUpdate("users")
    \/ QSet("age", "31")
    \/ QSetParam("name", Str("Bo"))
    \/ QDeleteFrom("users")
    \/ \E c \in {<<>>, <<"id">>} : QReturning(c)
    \/ QBuild
    \/ QReset

\* the transactions and direct calls of one backend
Spec == InitTx /\ [][Next]_vars

\* the same, with the methods also applied to consumed Transaction values
SpecUnit == InitTx /\ [][NextUnit]_vars

\* one query builder
SpecQB == Init /\ [][NextQB]_vars

NextPool ==
    \/ \E p \in Callers : Acquire(p)
    \/ Tick
    \/ \E p \in Callers : DropConnection(p)

\* one Pool and its callers
SpecPool == InitTx /\ [][NextPool]_vars

\* the same, where every PoolConnection is eventually dropped by its holder
SpecPoolFair ==
    /\ InitTx
    /\ [][NextPool]_vars
    /\ \A p \in Callers : WF_vars(DropConnection(p))

NextConn == \E url \in Urls, driverOk \in BOOLEAN : Connect(url, driverOk)

\* calls of Database::connect
SpecConn == InitTx /\ [][NextConn]_vars

NextCrud ==
    \/ \E id \in GivenIds, person \in People : Create(id, person)
    \/ \E i \in DOMAIN GetPreds, j \in DOMAIN GetOrders :
         Get(GetPreds[i], GetOrders[j])
    \/ \E id \in 1..MaxRows : Find(id)
    \/ \E id \in 1..MaxRows : Delete(id)
    \/ Count

\* one model over one backend
SpecCrud == InitCrud /\ [][NextCrud]_vars

InitQuery == TxInit /\ qb = NewBuilder("SQLite") /\ built = NoBuild
             /\ lastReturning = <<>> /\ resetOf = NoReset /\ ncalls = 0
            /\ lastEntry = "none" /\ wheres = <<>>
             /\ PoolInit /\ ConnInit /\ QueryInit /\ MigInit

NextQuery ==
    \/ \E i \in DOMAIN AgePreds, j \in DOMAIN AgeOrders, l \in Limits :
         GetLimited(AgePreds[i], AgeOrders[j], l)
    \/ \E i \in DOMAIN AgePreds, j \in DOMAIN AgeOrders :
         First(AgePreds[i], AgeOrders[j])

SpecQuery == InitQuery /\ [][NextQuery]_vars

NextMig ==
    \/ NewRunner
    \/ \E m \in MigIds : AddMigration(m)
    \/ \E bad \in Bads : RunPending(bad)
    \/ \E steps \in 0..MaxSteps, bad \in Bads : RollbackMigrations(steps, bad)

\* one database and the migration runners started on it, one at a time
SpecMig == InitTx /\ [][NextMig]_vars

(***************************************************************************)
(* Properties of transactions (Spec, SpecUnit).                            *)
(***************************************************************************)
\* every session that is in the pool or on its way back to it
Pooled == idle \cup releasing

\* C1: once commit() has returned Ok, every write the transaction made is
\* in the store, all of them together, and every session a later caller
\* can get reads them.
C1_CommitAtomicDurable ==
    (ret.op = "commit" /\ ret.ok) =>
        /\ \A k \in DOMAIN ret.writes : db[k] = ret.writes[k]
        /\ \A k \in Keys \ DOMAIN ret.writes : db[k] = ret.base[k]
        /\ \A s \in Pooled : View(s) = db

C1_CommitWitness ==
    /\ ret.op = "commit" /\ ret.ok
    /\ DOMAIN ret.writes = Keys
    /\ \A k \in Keys : ret.writes[k] # ret.base[k]
    /\ db = ret.writes

\* C2: once rollback() has returned, the store holds what it held when the
\* transaction began (with what other callers committed since), and no
\* session a later caller can get shows any write of the transaction.
C2_RollbackDiscards ==
    (ret.op = "rollback") =>
        /\ db = ret.base
        /\ \A s \in Pooled : View(s) = db

C2_RollbackWitness ==
    /\ ret.op = "rollback" /\ ret.ok
    /\ DOMAIN ret.writes = Keys
    /\ \A k \in Keys : ret.writes[k] # db[k]

\* C3: once an Active Transaction value has been dropped, the store holds
\* what it held when the transaction began (with what other callers
\* committed since), and no session a later caller can get shows any write
\* of the transaction.
C3_DropRollsBack ==
    (ret.op = "drop") =>
        /\ db = ret.base
        /\ \A s \in Pooled : View(s) = db

C3_DropWitness ==
    /\ ret.op = "drop"
    /\ ret.writes # EmptyWrites
    /\ \E k \in DOMAIN ret.writes : ret.writes[k] # db[k]

\* C4: a read made directly on the backend returns the committed value:
\* for every transaction that is Active, the value the store would hold
\* had that transaction never written.
C4_DirectReadIsolated ==
    (ret.op = "fetch_one_params") =>
        /\ ret.val = {db[ret.key]}
        /\ \A t \in Held : ret.val = {txBase[t][ret.key]}

C4_DirectReadWitness ==
    /\ ret.op = "fetch_one_params"
    /\ \E t \in Held : \E s \in txSess[t] :
         /\ ret.key \in DOMAIN sessWrites[s]
         /\ sessWrites[s][ret.key] # db[ret.key]

\* the Transaction value is in one of its two states, and `inner` is
\* present exactly in Active
TwoStates ==
    \A t \in TxIds :
        /\ txState[t] \in {"Unborn", "Active", "Consumed", "Dropped"}
        /\ (txState[t] = "Active") <=> (txSess[t] # {})

\* Consumed is terminal, and Active is left only by commit or rollback
\* (or by the value's destruction)
LifecycleStep ==
    \A t \in TxIds :
        /\ (txState[t] = "Consumed") => (txState'[t] = "Consumed")
        /\ (txState[t] = "Active" /\ txState'[t] # "Active") =>
             \/ /\ txState'[t] = "Consumed"
                /\ ret'.op \in {"commit", "rollback"}
                /\ ret'.tx = {t}
             \/ /\ txState'[t] = "Dropped"
                /\ ret'.op = "drop"
                /\ ret'.tx = {t}

\* an execute or fetch on a Consumed value fails with the fixed message
\* and touches nothing
ConsumedCallFails ==
    \A t \in TxIds :
        (/\ txState[t] = "Consumed"
         /\ ret' # ret
         /\ ret'.tx = {t}
         /\ ret'.op \in {"execute_params", "tx_fetch_one_params"}) =>
            /\ ~ret'.ok
            /\ ret'.err = AlreadyCompleted
            /\ UNCHANGED <<db, idle, releasing, sessOpen, sessWrites>>

\* C6: a Transaction is Active (inner present) or Consumed (inner absent);
\* it goes from Active to Consumed only by commit or rollback, Consumed is
\* terminal, and every execute or fetch on a Consumed transaction returns
\* the error "Transaction already completed" and leaves the store alone.
C6_Lifecycle ==
    /\ []TwoStates
    /\ [][LifecycleStep /\ ConsumedCallFails]_vars

C6_LifecycleWitness ==
    /\ ret.op = "execute_params"
    /\ ~ret.ok
    /\ ret.err = AlreadyCompleted
    /\ ret.tx \subseteq Completed

\* C7: the session of an Active transaction is that transaction's alone:
\* it is not in the pool, no direct call runs on it, and no other
\* transaction holds it.
C7_ExclusiveSession ==
    \A t \in Held :
        /\ Cardinality(txSess[t]) = 1
        /\ txSess[t] \cap Pooled = {}
        /\ txSess[t] \cap directSess = {}
        /\ \A u \in Held \ {t} : txSess[u] \cap txSess[t] = {}

C7_ExclusiveWitness ==
    /\ Cardinality(Held) = NumTx
    /\ \A t \in Held : \E s \in txSess[t] : sessWrites[s] # EmptyWrites
    /\ ret.op = "execute_params"

\* C8: a session that is back in the pool, or on its way back to it, has
\* no open transaction and carries no uncommitted write.
C8_RollbackBeforeRelease ==
    \A s \in Pooled : ~sessOpen[s] /\ sessWrites[s] = EmptyWrites

C8_ReleaseWitness ==
    /\ ret.op = "rollback" /\ ret.ok
    /\ ret.writes # EmptyWrites
    /\ \E s \in idle : \E t \in Held : txBase[t] = db /\ s \notin txSess[t]

(***************************************************************************)
(* Properties of the query builder (SpecQB).                               *)
(***************************************************************************)
\* every value the builder holds was bound by where_eq, values_params or
\* set_param
ValueOnly(q) ==
    /\ \A i \in DOMAIN q.where_clauses : q.where_clauses[i].ph # <<>>
    /\ \A i \in DOMAIN q.insert_values :
         \A j \in DOMAIN q.insert_values[i] : q.insert_values[i][j].ph # <<>>
    /\ \A i \in DOMAIN q.update_sets : q.update_sets[i].val.ph # <<>>

\* the builder holds only clauses of the statement kind it builds
KindConsistent(q) ==
    /\ (q.where_clauses # <<>>) => (q.query_type # "Insert")
    /\ (q.insert_values # <<>>) => (q.query_type = "Insert")
    /\ (q.update_sets # <<>>) => (q.query_type = "Update")

\* C5: when values are bound only through where_eq, values_params and
\* set_param, in any order, the SQL that build() returns has exactly
\* len(params()) placeholders, and its i-th placeholder, in textual order,
\* is the one params()[i] was bound for.
C5_PlaceholdersAligned ==
    (built.done /\ built.ok /\ ValueOnly(qb) /\ KindConsistent(qb)) =>
        /\ NumPlaceholders(built.sql) = Len(qb.params)
        /\ built.ph = [i \in 1..Len(qb.params) |-> i]

\* C9: build() called right after reset() on a populated builder returns
\* an error, never Ok.
C9_ResetThenBuildErrors ==
    (built.done /\ resetOf.was /\ resetOf.full) => ~built.ok

\* C10: on INSERT, UPDATE and DELETE, build() emits the RETURNING clause
\* that returning(columns) asked for exactly when the backend reports the
\* Returning feature; on a backend without it the call changes nothing and
\* build() returns what it returns without the call.
C10_ReturningIffSupported ==
    (/\ built.done
     /\ qb.query_type \in {"Insert", "Update", "Delete"}
     /\ lastReturning # <<>>) =>
        /\ built.ok = Render([qb EXCEPT !.returning_columns = <<>>]).ok
        /\ built.ok =>
             (HasReturning(built.sql) <=> SupportsFeature(qb.dialect, "Returning"))
        /\ ~SupportsFeature(qb.dialect, "Returning") =>
             built = Built(Render([qb EXCEPT !.returning_columns = <<>>]))

C10_ReturningWitness ==
    /\ built.done /\ built.ok
    /\ qb.query_type = "Insert"
    /\ lastReturning # <<>>
    /\ qb.dialect = "MySQL"
    /\ ~HasReturning(built.sql)

\* the active statement kind lacks something it cannot be rendered without
Unrenderable(q) ==
    \/ q.query_type = "Select" /\ q.table = {}
    \/ q.query_type = "Insert" /\ (\/ q.insert_table = {}
                                   \/ q.insert_columns = <<>>
                                   \/ q.insert_values = <<>>)
    \/ q.query_type = "Update" /\ (q.update_table = {} \/ q.update_sets = <<>>)
    \/ q.query_type = "Delete" /\ q.delete_table = {}

\* C11: build() returns an error and no SQL text whenever the active
\* statement kind has no table, or is an INSERT without columns or value
\* rows, or is an UPDATE without SET assignments.
C11_StructuralErrors ==
    (built.done /\ Unrenderable(qb)) =>
        (~built.ok /\ built.sql = <<>> /\ built.err # "")

\* the calls of the SELECT methods, with the arguments NextQB gives them
SelectCalls ==
    <<Call("select", <<>>), Call("select", <<"id", "name">>),
      Call("from", <<"users">>), Call("where_clause", <<"age > 18">>),
      Call("where_eq", <<"age", I32("18")>>),
      Call("order_by", <<"name", "ASC">>), Call("limit", <<10>>),
      Call("offset", <<5>>)>>

\* the builder field a SELECT method writes
Field(c) == IF c.m \in {"where_clause", "where_eq"} THEN "where_clauses" ELSE c.m

SelectKeywords == <<"SELECT", "FROM", "WHERE", "ORDER BY", "LIMIT", "OFFSET">>

\* the keywords that are present stand in the order of SelectKeywords
ClausesInOrder(sql) ==
    /\ sql[1] = "SELECT"
    /\ \A i, j \in DOMAIN SelectKeywords :
         (i < j /\ Pos(sql, SelectKeywords[i]) > 0
                /\ Pos(sql, SelectKeywords[j]) > 0) =>
            Pos(sql, SelectKeywords[i]) < Pos(sql, SelectKeywords[j])

\* the clauses present are exactly those whose field is set
ClausesPresent(q, sql) ==
    /\ (Pos(sql, "FROM") > 0) <=> (q.table # {})
    /\ (Pos(sql, "WHERE") > 0) <=> (q.where_clauses # <<>>)
    /\ (Pos(sql, "ORDER BY") > 0) <=> (q.order_by # <<>>)
    /\ (Pos(sql, "LIMIT") > 0) <=> (q.limit # {})
    /\ (Pos(sql, "OFFSET") > 0) <=> (q.offset # {})

\* swapping the adjacent calls a and b leaves the rendered SQL the same
Commute(q, a, b) ==
    Render(Apply(Apply(q, a), b)) = Render(Apply(Apply(q, b), a))

\* C12 as stated: a SELECT is rendered in the order SELECT, FROM, WHERE,
\* ORDER BY, LIMIT, OFFSET, and swapping two adjacent calls to different
\* builder methods never changes the rendered SQL.
C12_AnyMethodsCommute ==
    (qb.query_type = "Select") =>
        /\ ClausesInOrder(Render(qb).sql)
        /\ \A i, j \in DOMAIN SelectCalls :
             (i < j /\ SelectCalls[i].m # SelectCalls[j].m) =>
                Commute(qb, SelectCalls[i], SelectCalls[j])

\* C12, amended: a SELECT is rendered in the order SELECT, FROM, WHERE,
\* ORDER BY, LIMIT, OFFSET, with exactly the clauses whose field is set,
\* and swapping two adjacent calls to methods that write different builder
\* fields never changes the rendered SQL (where_clause and where_eq write
\* the same list, which is rendered in call order).
C12_SelectOrderIndependent ==
    (qb.query_type = "Select") =>
        /\ ClausesInOrder(Render(qb).sql)
        /\ ClausesPresent(qb, Render(qb).sql)
        /\ built.done => built = Built(BuildSelect(qb))
        /\ \A i, j \in DOMAIN SelectCalls :
             (i < j /\ Field(SelectCalls[i]) # Field(SelectCalls[j])) =>
                Commute(qb, SelectCalls[i], SelectCalls[j])

C12_SelectWitness ==
    /\ built.done /\ built.ok
    /\ qb = Apply(Apply(Apply(Apply(NewBuilder(qb.dialect),
                                    Call("limit", <<10>>)),
                              Call("order_by", <<"name", "ASC">>)),
                        Call("where_clause", <<"age > 18">>)),
                  Call("from", <<"users">>))
    /\ built.sql = <<"SELECT", "*", "FROM", "users", "WHERE", "age > 18",
                     "ORDER BY", "name", "ASC", "LIMIT", "10">>

\* a step in which build() returned leaves every field and the parameter
\* list as they were, and returns what the previous build() returned when
\* no mutating call came in between
BuildStep ==
    built'.done =>
        /\ qb' = qb
        /\ built' = Built(Render(qb))
        /\ built.done => built' = built

\* C13: build() is read-only: whether it returns Ok or an error, it leaves
\* every builder field and the parameter list unchanged, and consecutive
\* build() calls with no mutating call in between return equal results.
C13_BuildReadOnly ==
    /\ [](built.done => built = Built(Render(qb)))
    /\ [][BuildStep]_vars

C13_BuildWitness ==
    /\ built.done /\ built.ok
    /\ qb.where_clauses # <<>>
    /\ qb.params # <<>>
    /\ qb.table # {}

(***************************************************************************)
(* Properties of the Pool (SpecPool).                                      *)
(***************************************************************************)
\* an acquire completes only while fewer than max_connections
\* PoolConnection values are live, or in the step that drops one of them
AcquireCompletes ==
    \A p \in Callers :
        (pc[p] # "holding" /\ pc'[p] = "holding") =>
            \/ Cardinality(Live) < MaxConnections
            \/ \E q \in Live : pc'[q] # "holding"

\* C14: at most max_connections PoolConnection values are live in every
\* reachable state, and an acquire issued while max_connections are live
\* completes only when one of them is dropped.
C14_PoolBound ==
    /\ [](/\ Cardinality(Live) <= MaxConnections
          /\ permits + Cardinality(Live) = MaxConnections)
    /\ [][AcquireCompletes]_vars

C14_PoolWitness ==
    /\ Cardinality(Live) = MaxConnections
    /\ queue # <<>>
    /\ permits = 0

\* C15: an acquire that cannot get a permit before connection_timeout has
\* elapsed stops waiting (and fails with a connection error): no acquire
\* is still pending after more than connection_timeout.
C15_AcquireTimesOut ==
    \A p \in Callers : (pc[p] = "waiting") => (waited[p] <= ConnectionTimeout)

(***************************************************************************)
(* Properties of Database::connect (SpecConn).                             *)
(***************************************************************************)
\* url is prefix followed by something
Begins(url, prefix) ==
    \E n \in 0..Len(url) :
        n = Len(prefix) /\ url = prefix \o SubSeq(url, n + 1, Len(url))

\* C16: connect(url) calls the SQLite backend's connect iff url starts
\* with "sqlite:" and the MySQL backend's iff it starts with "mysql://";
\* for every other url it returns a ConfigError and calls no backend's
\* connect.
C16_ConnectDispatch ==
    conn.done =>
        /\ (conn.called = <<"SQLite">>) <=> Begins(conn.url, SqlitePrefix)
        /\ (conn.called = <<"MySQL">>) <=> Begins(conn.url, MysqlPrefix)
        /\ (~Begins(conn.url, SqlitePrefix) /\ ~Begins(conn.url, MysqlPrefix)) =>
             (conn.called = <<>> /\ ~conn.ok /\ conn.err = "ConfigError")
        /\ conn.ok => conn.called = <<conn.backend>>

C16_ConnectWitness ==
    /\ conn.done
    /\ conn.url = <<"x">> \o SqlitePrefix
    /\ conn.err = "ConfigError"
    /\ conn.called = <<>>

(***************************************************************************)
(* More properties of transactions (Spec).                                 *)
(***************************************************************************)
\* a step in which execute_params returned a driver error to an Active
\* transaction changes neither the transaction nor its session
FailedStatementStep ==
    \A t \in Held :
        (/\ ret' # ret
         /\ ret'.op = "execute_params"
         /\ ret'.tx = {t}
         /\ ~ret'.ok) =>
            /\ txState'[t] = "Active"
            /\ UNCHANGED <<txSess, sessOpen, sessWrites, db>>

\* C18: when execute_params inside an Active transaction returns an error,
\* the transaction stays Active and keeps the writes it made before, and
\* execute_params, rollback and commit can still be called on it and
\* succeed.
C18_FailedStatementKeepsTx ==
    /\ [][FailedStatementStep]_vars
    /\ [](\A t \in TxIds :
            (ret.op = "execute_params" /\ ret.tx = {t} /\ ~ret.ok) =>
                /\ t \in Held
                /\ \E s \in txSess[t] : sessOpen[s]
                /\ ENABLED ExecuteParams(t, "Alice", 50, TRUE)
                /\ ENABLED Commit(t, TRUE)
                /\ ENABLED Rollback(t, TRUE))

C18_FailedStatementWitness ==
    /\ ret.op = "execute_params"
    /\ ~ret.ok
    /\ ret.err = DriverError
    /\ \E t \in Held : ret.tx = {t} /\
         \E s \in txSess[t] : DOMAIN sessWrites[s] = Keys

\* C19: a fetch made through an Active transaction returns, for a row the
\* transaction wrote, the value it wrote last, although that write is not
\* committed; for a row it did not write, the committed value.
C19_ReadYourWrites ==
    \A t \in Held :
        (ret.op = "tx_fetch_one_params" /\ ret.tx = {t}) =>
            /\ ret.ok
            /\ \A s \in txSess[t] :
                 ret.val = {IF ret.key \in DOMAIN sessWrites[s]
                            THEN sessWrites[s][ret.key]
                            ELSE db[ret.key]}

C19_ReadYourWritesWitness ==
    /\ ret.op = "tx_fetch_one_params"
    /\ \E t \in Held : ret.tx = {t} /\
         \E s \in txSess[t] :
            /\ ret.key \in DOMAIN sessWrites[s]
            /\ ret.val = {sessWrites[s][ret.key]}
            /\ sessWrites[s][ret.key] # db[ret.key]

(***************************************************************************)
(* Properties of ModelCrud (SpecCrud).                                     *)
(***************************************************************************)
\* the row create was asked to insert is the one it returned, with a
\* primary key
ReturnsInserted ==
    /\ crud.ok
    /\ crud.rows = <<users[Len(users)]>>
    /\ crud.rows[1].name = crud.given[2].name
    /\ crud.rows[1].age = crud.given[2].age
    /\ crud.rows[1].id \in Nat \ {0}
    /\ crud.given[1] # {} => crud.given[1] = {crud.rows[1].id}

\* C17: when the store accepts the insert, create on a backend with
\* RETURNING issues the single statement INSERT ... RETURNING and returns
\* the inserted row, primary key included; on a backend without RETURNING
\* it issues a plain INSERT followed by a lookup by primary key, and
\* returns the row that lookup finds.
C17_CreateReturnsRow ==
    (crud.op = "create" /\ crud.err # DriverError) =>
        IF SupportsFeature(crudDialect, "Returning")
        THEN /\ Len(crud.stmts) = 1
             /\ crud.stmts[1].sql[1] = "INSERT INTO"
             /\ HasReturning(crud.stmts[1].sql)
             /\ ReturnsInserted
        ELSE /\ Len(crud.stmts) = 2
             /\ crud.stmts[1].sql[1] = "INSERT INTO"
             /\ ~HasReturning(crud.stmts[1].sql)
             /\ crud.stmts[2].sql[1] = "SELECT"
             /\ crud.stmts[2].params = <<I64(crud.rows[1].id)>>
             /\ ReturnsInserted

Ages(rows) == [i \in DOMAIN rows |-> rows[i].age]

AgeIs(v) == <<[col |-> "age", val |-> I32(v)]>>

\* C21: with ten users aged 21 to 30 stored,
\* where_eq("age", 25).order_by("age", Asc).limit(3).get() returns three
\* records aged 25, 26 and 27 in that order, and
\* where_eq("age", 28).order_by("age", Asc).first() returns a record aged 29.
C21_QueryBuilderTest ==
    /\ (crud.op = "get" /\ crud.preds = AgeIs(25)
          /\ crud.order = <<"age", "ASC">> /\ crud.limit = {3})
        => Ages(crud.rows) = <<25, 26, 27>>
    /\ (crud.op = "first" /\ crud.preds = AgeIs(28)
          /\ crud.order = <<"age", "ASC">>)
        => Ages(crud.rows) = <<29>>

NotImplemented == "Auto-increment ID retrieval not yet implemented for MySQL"

\* the latest call was a create without primary key on a backend without
\* RETURNING
CreateWithoutPk ==
    /\ crud.op = "create"
    /\ crud.given[1] = {}
    /\ ~SupportsFeature(crudDialect, "Returning")

\* C28: on a backend without RETURNING, create for a record without a
\* primary-key value executes the INSERT and then returns the QueryError
\* "Auto-increment ID retrieval not yet implemented"; the inserted row stays
\* in the store although the caller received an error.
C28_CreateErrorKeepsRow ==
    CreateWithoutPk =>
        /\ ~crud.ok
        /\ crud.err = NotImplemented
        /\ crud.rows = <<>>
        /\ Len(crud.stmts) = 1
        /\ crud.stmts[1].sql[1] = "INSERT INTO"
        /\ \E i \in DOMAIN users :
             users[i] = [id |-> seq, name |-> crud.given[2].name,
                         age |-> crud.given[2].age]

\* Bob was created without primary key on MySQL after another record: the
\* call failed and Bob is stored under key 2
C28_CreateErrorWitness ==
    /\ CreateWithoutPk
    /\ crud.err = NotImplemented
    /\ Len(users) = 2
    /\ users[2] = [id |-> 2, name |-> "Bob", age |-> 25]

(***************************************************************************)
(* Properties of the statement kind and of the WHERE list (SpecQB).        *)
(***************************************************************************)
\* the statement kind an entry point stands for
KindOf(entry) ==
    CASE entry = "none" -> "Select"
      [] entry = "select" -> "Select"
      [] entry = "insert_into" -> "Insert"
      [] entry = "update" -> "Update"
      [] entry = "delete_from" -> "Delete"

\* the kind a build result shows: by its first keyword, or by its error
RenderedKind(b) ==
    IF b.ok
    THEN CASE b.sql[1] = "SELECT" -> "Select"
           [] b.sql[1] = "INSERT INTO" -> "Insert"
           [] b.sql[1] = "UPDATE" -> "Update"
           [] b.sql[1] = "DELETE FROM" -> "Delete"
    ELSE CASE b.err \in {"No table specified for INSERT",
                         "No columns specified for INSERT",
                         "No values specified for INSERT"} -> "Insert"
           [] b.err \in {"No table specified for UPDATE",
                         "No SET clauses specified for UPDATE"} -> "Update"
           [] b.err = "No table specified for DELETE" -> "Delete"

\* the builder with the state of every kind but its own forgotten
OwnKindOnly(q) ==
    LET fresh == NewBuilder(q.dialect)
        sel == [q EXCEPT !.columns = fresh.columns, !.table = fresh.table,
                         !.order_by = fresh.order_by, !.limit = fresh.limit,
                         !.offset = fresh.offset]
        keep(k, with, without) == IF q.query_type = k THEN with ELSE without
        q1 == keep("Select", q, sel)
        q2 == keep("Insert", q1, [q1 EXCEPT
                  !.insert_table = fresh.insert_table,
                  !.insert_columns = fresh.insert_columns,
                  !.insert_values = fresh.insert_values])
        q3 == keep("Update", q2, [q2 EXCEPT
                  !.update_table = fresh.update_table,
                  !.update_sets = fresh.update_sets])
    IN  keep("Delete", q3, [q3 EXCEPT !.delete_table = fresh.delete_table])

\* the state of the four kinds
KindState(q) ==
    <<<<q.columns, q.table, q.order_by, q.limit, q.offset>>,
      <<q.insert_table, q.insert_columns, q.insert_values>>,
      <<q.update_table, q.update_sets>>,
      <<q.delete_table>>>>

KindIndex(k) ==
    CASE k = "Select" -> 1 [] k = "Insert" -> 2
      [] k = "Update" -> 3 [] k = "Delete" -> 4

\* a call of an entry point leaves the state of the other kinds as it was
OtherKindsRetained ==
    lastEntry' # lastEntry \/ qb'.query_type # qb.query_type =>
        \/ lastEntry' = "none"
        \/ \A k \in {"Select", "Insert", "Update", "Delete"} :
             k # KindOf(lastEntry') =>
                KindState(qb')[KindIndex(k)] = KindState(qb)[KindIndex(k)]

\* what build() shows is the kind of the entry point called last, and the
\* statement of the builder with the other kinds' state forgotten
LastWriterWins ==
    /\ qb.query_type = KindOf(lastEntry)
    /\ built.done =>
         /\ RenderedKind(built) = KindOf(lastEntry)
         /\ built = Built(Render(OwnKindOnly(qb)))

\* C23: the statement kind is last-writer-wins: after any sequence of calls
\* to select, insert_into, update and delete_from, build() renders the kind
\* of the entry point called last (Select if none was called), and the state
\* recorded for the other kinds is retained but never appears in the
\* rendered SQL.
C23_LastWriterWins == []LastWriterWins /\ [][OtherKindsRetained]_vars

\* an INSERT was prepared, then delete_from was called and build() rendered
\* a DELETE while the INSERT's table and columns are still in the builder
C23_LastWriterWitness ==
    /\ built.done /\ built.ok
    /\ lastEntry = "delete_from"
    /\ built.sql[1] = "DELETE FROM"
    /\ qb.insert_table # {}
    /\ qb.insert_columns # <<>>

\* the fragments joined with AND, as tokens
RECURSIVE JoinAnd(_)
JoinAnd(ws) ==
    IF ws = <<>> THEN <<>>
    ELSE IF Len(ws) = 1 THEN ws[1]
    ELSE ws[1] \o <<"AND">> \o JoinAnd(Tail(ws))

\* the tokens of the WHERE clause of a rendered statement
RECURSIVE UpToClause(_)
UpToClause(toks) ==
    IF toks = <<>> \/ toks[1] \in {"ORDER BY", "LIMIT", "OFFSET", "RETURNING"}
    THEN <<>>
    ELSE <<toks[1]>> \o UpToClause(Tail(toks))

RenderedWhere(sql) ==
    IF Pos(sql, "WHERE") = 0 THEN <<>>
    ELSE UpToClause(SubSeq(sql, Pos(sql, "WHERE") + 1, Len(sql)))

\* C24: the WHERE fragments added to a builder form one ordered list shared
\* by SELECT, UPDATE and DELETE; build() renders the whole list joined with
\* AND in call order, so a fragment added before the statement kind was
\* switched still constrains the statement finally rendered, and only
\* reset() removes fragments.
C24_WhereAccumulates ==
    /\ [i \in DOMAIN qb.where_clauses |-> qb.where_clauses[i].text] = wheres
    /\ (built.done /\ built.ok /\ qb.query_type # "Insert") =>
         /\ RenderedWhere(built.sql) = JoinAnd(wheres)
         /\ (Pos(built.sql, "WHERE") # 0) = (wheres # <<>>)

\* two fragments were added while the builder was a SELECT, delete_from was
\* called, and build() rendered a DELETE constrained by both, in call order
C24_WhereWitness ==
    /\ built.done /\ built.ok
    /\ lastEntry = "delete_from"
    /\ wheres = <<<<"age > 18">>, <<"age", "=", Placeholder>>>>
    /\ built.sql = <<"DELETE FROM", "users", "WHERE", "age > 18", "AND",
                     "age", "=", Placeholder>>

(***************************************************************************)
(* Properties of finalization (SpecUnit).                                  *)
(***************************************************************************)
\* the latest call to return was a commit or rollback of t
Finalized(t) == ret.op \in {"commit", "rollback"} /\ ret.tx = {t}

\* once commit or rollback has returned, with or without error, the
\* transaction is Consumed and holds no session
ReturnedMeansConsumed ==
    \A t \in TxIds : Finalized(t) => txState[t] = "Consumed" /\ txSess[t] = {}

\* a commit or rollback of an Active transaction consumes it and hands its
\* session back whatever the driver answers, and the driver's error is the
\* error returned; one made on a Consumed transaction reaches no session
FinalizeStep ==
    \A t \in TxIds :
        (ret' # ret /\ ret'.op \in {"commit", "rollback"} /\ ret'.tx = {t}) =>
            IF txState[t] = "Active"
            THEN /\ txState'[t] = "Consumed"
                 /\ txSess'[t] = {}
                 /\ txSess[t] \subseteq releasing'
                 /\ ~ret'.ok => ret'.err = DriverError
            ELSE /\ ret'.ok
                 /\ UNCHANGED <<db, idle, releasing, sessOpen, sessWrites,
                                txState, txSess>>

\* C27: commit() and rollback() take the inner session before awaiting the
\* driver, so when the driver's commit or rollback fails the error is
\* propagated and the transaction is nonetheless Consumed: in no reachable
\* state has commit or rollback returned while the transaction is still
\* Active, and no retry reaches the driver.
C27_FinalizationConsumes ==
    /\ []ReturnedMeansConsumed
    /\ [][FinalizeStep]_vars

\* a commit failed in the driver with writes pending: the caller got the
\* driver's error and the transaction is Consumed
C27_FailedCommitWitness ==
    \E t \in TxIds :
        /\ ret.op = "commit"
        /\ ret.tx = {t}
        /\ ~ret.ok
        /\ ret.err = DriverError
        /\ ret.writes # EmptyWrites
        /\ txState[t] = "Consumed"

(***************************************************************************)
(* Properties of the permits of the pool (SpecPoolFair).                   *)
(***************************************************************************)
\* every permit is either available or owned by one live PoolConnection
PermitsConserved ==
    /\ permits \in 0..MaxConnections
    /\ permits + Cardinality(Live) = MaxConnections

\* the drop of a PoolConnection gives its permit back: to the semaphore, or
\* to the acquire that has been pending longest
DropReturnsPermit ==
    \A p \in Callers :
        (pc[p] = "holding" /\ pc'[p] # "holding") =>
            /\ pc'[p] = "idle"
            /\ IF queue = <<>>
               THEN permits' = permits + 1 /\ Live' = Live \ {p}
               ELSE /\ permits' = permits
                    /\ Live' = (Live \ {p}) \cup {Head(queue)}
                    /\ queue' = Tail(queue)

\* every pending acquire eventually completes
PendingCompletes ==
    \A p \in Callers : (pc[p] = "waiting") ~> (pc[p] = "holding")

\* C29: dropping a PoolConnection returns its permit; when every holder
\* eventually drops its connection, every pending acquire eventually
\* completes; and no permit is lost or duplicated: available permits plus
\* live PoolConnection values equal max_connections in every state.
C29_PermitsReturned ==
    /\ []PermitsConserved
    /\ [][DropReturnsPermit]_vars
    /\ PendingCompletes

\* an acquire that had to wait was completed by a drop and its caller now
\* holds a PoolConnection, while another acquire is still pending
C29_PermitsWitness ==
    \E p \in served :
        /\ pc[p] = "holding"
        /\ queue # <<>>
        /\ permits = 0

(***************************************************************************)
(* Properties of migrations (SpecMig).  They are stated of the call made   *)
(* in the present state with each of the failures tried.                   *)
(***************************************************************************)
\* the database as the next call finds it
Here == Db(tables, hasTable, recorded)

\* the run_pending made now, the driver refusing bad
RunNow(bad) == RunPendingOn(Here, registry, bad)

\* the registered migrations whose version is not recorded, in
\* registration order
Unrecorded == SelectSeq(registry, LAMBDA m : Version(m) \notin recorded)

\* the migrations a call started, in the order it started them
Started(log) ==
    LET firsts == SelectSeq(log, LAMBDA e : e.s.k \in {"up", "down"} /\ e.s.i = 1)
    IN  [j \in DOMAIN firsts |-> firsts[j].s.m]

\* the migrations all of whose up operations a call executed, in order
Applied(log) ==
    LET lasts == SelectSeq(log, LAMBDA e :
                     e.s.k = "up" /\ e.ok /\ e.s.i = Len(Up(e.s.m)))
    IN  [j \in DOMAIN lasts |-> lasts[j].s.m]

IsPrefix(a, b) == Len(a) <= Len(b) /\ a = SubSeq(b, 1, Len(a))

\* statement p of the log comes right after all the operations of its
\* migration, each executed successfully, in order
AfterAllOps(log, p, k) ==
    LET m == log[p].s.m
        n == Len(OpsOf(k, m))
    IN  /\ p > n
        /\ \A i \in 1..n :
             log[p - n - 1 + i] = [s |-> Statement(k, m, i), ok |-> TRUE]

\* run_pending takes the registered migrations whose version is not
\* recorded, in registration order, all of them when it returns Ok
AppliesUnrecorded(r) ==
    /\ IsPrefix(Started(r.log), Unrecorded)
    /\ r.ok => Applied(r.log) = Unrecorded /\ Done(r.log) = Unrecorded

\* a version is recorded only after every operation of its migration
RecordsAfterOps(r) ==
    \A p \in DOMAIN r.log :
        r.log[p].s.k = "record" => AfterAllOps(r.log, p, "up")

\* a run_pending that follows a successful one finds nothing to apply
SecondRunIdle(r) ==
    r.ok => LET again == RunPendingOn([r EXCEPT !.log = <<>>], registry, NoBad)
            IN  again.ok /\ Started(again.log) = <<>> /\ Done(again.log) = <<>>

\* no version is applied that is recorded, and none twice in one call
NoVersionTwice(r) ==
    LET a == Applied(r.log)
    IN  /\ \A p \in DOMAIN a : Version(a[p]) \notin recorded
        /\ \A p, q \in DOMAIN a : p # q => Version(a[p]) # Version(a[q])

\* the registered migrations carry pairwise distinct versions
DistinctVersions ==
    \A i, j \in DOMAIN registry :
        i # j => Version(registry[i]) # Version(registry[j])

RollbackNow(steps, bad) == RollbackOn(Here, registry, steps, bad)

\* the `steps` highest recorded versions
Highest(steps) ==
    {v \in recorded : Cardinality({w \in recorded : w > v}) < steps}

\* version v has a registered migration
Registered(v) == \E j \in DOMAIN registry : Version(registry[j]) = v

Versions(ms) == [j \in DOMAIN ms |-> Version(ms[j])]

Descending(vs) == \A p, q \in DOMAIN vs : p < q => vs[p] > vs[q]

Range(f) == {f[j] : j \in DOMAIN f}

\* what rollback(steps) does when the migrations table can be read
RollsBackHighest(steps, r) ==
    LET undone == Done(r.log)
        due == {v \in Highest(steps) : Registered(v)}
    IN  /\ Range(undone) \subseteq Range(registry)
        /\ Descending(Versions(undone))
        /\ Range(Versions(undone)) \subseteq due
        /\ Started(r.log) = undone \/ (~r.ok /\ IsPrefix(undone, Started(r.log)))
        /\ \A p \in DOMAIN r.log :
             r.log[p].s.k = "unrecord" => AfterAllOps(r.log, p, "down")
        /\ r.recorded = recorded \ Range(Versions(undone))
        /\ r.ok => Range(Versions(undone)) = due

\* C26: rollback(steps) takes the `steps` highest recorded versions in
\* descending order; for each that has a registered migration it runs the
\* down operations and then deletes the record; a recorded version without
\* registered migration is skipped, not deleted, and still counts toward
\* `steps`.
C26_RollbackSteps ==
    hasTable =>
        \A steps \in 0..MaxSteps, bad \in Bads :
            RollsBackHighest(steps, RollbackNow(steps, bad))

\* rollback(2) found versions 1, 2 and 3 recorded and migrations 1 and 3
\* registered: it rolled back 3 alone, version 2 is still recorded, and
\* version 1 was not reached
C26_RollbackWitness ==
    /\ mig.op = "rollback"
    /\ mig.ok
    /\ mig.steps = 2
    /\ mig.done = <<3>>
    /\ recorded = {1, 2}
    /\ Registered(1)
    /\ ~Registered(2)
    /\ "tags" \notin tables

\* a failed run_pending stopped at the operation that failed
StopsAtFailure(r) ==
    /\ \A p \in DOMAIN r.log : r.log[p].ok <=> p < Len(r.log)
    /\ Started(r.log)[Len(Started(r.log))] = Failed(r).m
    /\ Done(r.log) = SubSeq(Started(r.log), 1, Len(Started(r.log)) - 1)

\* the operations executed before the failure remain applied
KeepsExecutedOps(r) ==
    /\ \A i \in 1..(Failed(r).i - 1) : Up(Failed(r).m)[i].t \in r.tables
    /\ tables \subseteq r.tables

\* the version of the migration that failed is not recorded
VersionNotRecorded(r) == Version(Failed(r).m) \notin r.recorded

\* the next run_pending starts the migration that failed from its first
\* operation
RerunsWhole(r) ==
    LET again == RunPendingOn([r EXCEPT !.log = <<>>, !.ok = TRUE],
                              registry, NoBad)
        ups == SelectSeq(again.log, LAMBDA e : e.s.k = "up")
    IN  ups # <<>> /\ ups[1].s = Statement("up", Failed(r).m, 1)

\* the run_pending made now fails in a schema operation
FailsInOperation(r) == ~r.ok /\ Failed(r).k = "up"

====
